---- MODULE Spec2Model ----
(***************************************************************************)
(* Cycle & symptom prediction engine of Goutam-back-app:                   *)
(*   src/utils/cycle_calculator.py   (MenstrualCycleCalculator)            *)
(*   src/utils/symptom_predictor.py  (SymptomPredictor)                    *)
(*                                                                         *)
(* Dates are day ordinals (integers); a timedelta is a number of days.     *)
(* A Python float that is a mean (statistics.mean sums exactly) is the     *)
(* exact fraction [num, den] in lowest terms: the code compares such a     *)
(* mean (or the mean minus 14) with an integer, or a probability with one  *)
(* of the thresholds 0.4, 0.6, 0.7, 0.8, where the float and the fraction  *)
(* agree.  An Optional value is a sequence of length 0 (None) or 1.        *)
(***************************************************************************)
EXTENDS Integers, Sequences, FiniteSets, TLC

VARIABLES
    entries,              \* the caller's list of cycle entries, in the caller's order
    symptom_log,          \* the caller's list of daily symptom records
    today_symptoms,       \* the caller's record of today's symptoms, if any
    today,                \* date.today() during the call
    hashseed,             \* the process's string-hash seed (fixes set iteration order)
    suggestion_database,  \* SymptomPredictor.suggestion_database
    op,                   \* the operation that returned last
    arg,                  \* its scalar arguments
    result,               \* the value it returned
    calls,                \* the calls made so far on the engine instances
    cycle_collection,     \* the stored cycle entries, in insertion order
    requests              \* the requests to the cycle routes, each with its position

vars == <<entries, symptom_log, today_symptoms, today, hashseed,
          suggestion_database, op, arg, result, calls, cycle_collection, requests>>

(***************************** bounds ***************************************)
MaxEntries == 5        \* entries of a date-distinct history
MaxShort == 3          \* entries of an arbitrary (order, duplicates) history
MaxDaysAhead == 3      \* days_ahead of generate_predictions
NumSeeds == 2          \* hash seeds tried

\* Dates a history is drawn from: gaps 20, 21, 22, 28, 35, 36 and more occur.
Dates == {0, 1, 21, 22, 29, 43, 57, 58}
ShortDates == {0, 21}
Todays == {0, 27, 60}
MoodLists == {<<>>, <<"sad", "calm">>}

(************************** values ******************************************)
None == <<>>
Some(x) == <<x>>

Abs(x) == IF x < 0 THEN -x ELSE x

RECURSIVE Gcd(_, _)
Gcd(a, b) == IF b = 0 THEN a ELSE Gcd(b, a % b)

\* the fraction n/d (d > 0) in lowest terms
Rat(n, d) == LET g == Gcd(Abs(n), d) IN [num |-> n \div g, den |-> d \div g]

RECURSIVE SumSeq(_)
SumSeq(s) == IF s = <<>> THEN 0 ELSE s[1] + SumSeq(Tail(s))

\* statistics.mean of a non-empty list of integers
mean(s) == Rat(SumSeq(s), Len(s))

\* int(x): truncation toward zero
int(r) == IF r.num >= 0 THEN r.num \div r.den ELSE -((-r.num) \div r.den)

\* x - k for an integer k
RatMinus(r, k) == [num |-> r.num - k * r.den, den |-> r.den]

\* n <= x, and abs(n - x) <= k, for integers n, k
IntLeRat(n, r) == n * r.den <= r.num
AbsDiffLe(n, r, k) == Abs(n * r.den - r.num) <= k * r.den

(********************* MenstrualCycleCalculator *****************************)
default_cycle_length == 28
default_period_length == 5
luteal_phase_length == 14

\* sorted(entries, key=lambda x: x['date']): stable, ascending
RECURSIVE sort_by_date(_)
sort_by_date(s) ==
    IF s = <<>> THEN <<>>
    ELSE LET t == sort_by_date(SubSeq(s, 1, Len(s) - 1))
             e == s[Len(s)]
             k == Cardinality({i \in 1..Len(t) : t[i].date <= e.date})
         IN SubSeq(t, 1, k) \o <<e>> \o SubSeq(t, k + 1, Len(t))

\* sorted() builds a new list (local) and leaves its argument (caller) alone
sorted_in_place(s) == [local |-> sort_by_date(s), caller |-> sort_by_date(s)]
sorted(s) == [local |-> sort_by_date(s), caller |-> s]

RECURSIVE period_starts_loop(_, _, _, _)
period_starts_loop(s, i, in_period, period_starts) ==
    IF i > Len(s) THEN period_starts
    ELSE IF s[i].is_period_day /\ ~in_period
         THEN period_starts_loop(s, i + 1, TRUE, Append(period_starts, s[i].date))
    ELSE IF ~s[i].is_period_day
         THEN period_starts_loop(s, i + 1, FALSE, period_starts)
    ELSE period_starts_loop(s, i + 1, in_period, period_starts)

_get_period_starts_unsorted(es) == period_starts_loop(es, 1, FALSE, <<>>)

_get_period_starts(es) == period_starts_loop(sorted(es).local, 1, FALSE, <<>>)

RECURSIVE period_length_loop(_, _, _, _, _)
period_length_loop(s, i, start_date, current_date, period_days) ==
    IF i > Len(s) THEN period_days
    ELSE IF s[i].date >= start_date /\ s[i].is_period_day
         THEN IF s[i].date = current_date
              THEN period_length_loop(s, i + 1, start_date, current_date + 1, period_days + 1)
              ELSE period_days
    ELSE IF s[i].date > start_date THEN period_days
    ELSE period_length_loop(s, i + 1, start_date, current_date, period_days)

\* the same with a period of one day not counted
_calculate_period_length_over_one(es, start_date) ==
    LET period_days == period_length_loop(sorted(es).local, 1, start_date, start_date, 0)
    IN IF period_days > 1 THEN Some(period_days) ELSE None

_calculate_period_length(es, start_date) ==
    LET period_days == period_length_loop(sorted(es).local, 1, start_date, start_date, 0)
    IN IF period_days > 0 THEN Some(period_days) ELSE None

_get_current_phase_window_first(cycle_day, cycle_length) ==
    IF cycle_day <= 5 THEN "menstrual"
    ELSE IF AbsDiffLe(cycle_day, RatMinus(cycle_length, luteal_phase_length), 2) THEN "ovulation"
    ELSE IF IntLeRat(cycle_day, RatMinus(cycle_length, luteal_phase_length)) THEN "follicular"
    ELSE "luteal"

_get_current_phase(cycle_day, cycle_length) ==
    IF cycle_day <= 5 THEN "menstrual"
    ELSE IF IntLeRat(cycle_day, RatMinus(cycle_length, luteal_phase_length)) THEN "follicular"
    ELSE IF AbsDiffLe(cycle_day, RatMinus(cycle_length, luteal_phase_length), 2) THEN "ovulation"
    ELSE "luteal"

RECURSIVE cycle_lengths_loop_all(_, _, _)
cycle_lengths_loop_all(period_starts, i, cycle_lengths) ==
    IF i > Len(period_starts) THEN cycle_lengths
    ELSE cycle_lengths_loop_all(period_starts, i + 1,
             Append(cycle_lengths, period_starts[i] - period_starts[i - 1]))

\* the gaps between consecutive period starts that lie in [21, 35]
RECURSIVE cycle_lengths_loop(_, _, _)
cycle_lengths_loop(period_starts, i, cycle_lengths) ==
    IF i > Len(period_starts) THEN cycle_lengths
    ELSE LET cycle_length == period_starts[i] - period_starts[i - 1]
         IN cycle_lengths_loop(period_starts, i + 1,
                IF 21 <= cycle_length /\ cycle_length <= 35
                THEN Append(cycle_lengths, cycle_length) ELSE cycle_lengths)

RECURSIVE period_lengths_loop(_, _, _, _)
period_lengths_loop(es, period_starts, i, period_lengths) ==
    IF i > Len(period_starts) THEN period_lengths
    ELSE LET period_length == _calculate_period_length(es, period_starts[i])
         IN period_lengths_loop(es, period_starts, i + 1,
                IF period_length # None /\ period_length[1] # 0
                THEN Append(period_lengths, period_length[1]) ELSE period_lengths)

CycleStats(acl, apl, lps, npp, npo, ccd, cp, tct) ==
    [average_cycle_length |-> acl, average_period_length |-> apl,
     last_period_start |-> lps, next_predicted_period |-> npp,
     next_predicted_ovulation |-> npo, current_cycle_day |-> ccd,
     current_phase |-> cp, total_cycles_tracked |-> tct]

sparse_stats_no_last(period_starts) ==
    CycleStats(None, None, None, None, None, None, None, Len(period_starts))

\* the stats returned for fewer than 2 period starts
sparse_stats(period_starts) ==
    CycleStats(None, None,
        IF period_starts # <<>> THEN Some(period_starts[1]) ELSE None,
        None, None, None, None, Len(period_starts))

next_period(last_period, avg_cycle_length) == last_period + int(avg_cycle_length)

next_ovulation_no_luteal(last_period, avg_cycle_length) ==
    last_period + int(avg_cycle_length)

next_ovulation(last_period, avg_cycle_length) ==
    last_period + int(RatMinus(avg_cycle_length, luteal_phase_length))

current_cycle_day_zero_based(now, last_period) == now - last_period

\* the same wrapped to the default cycle length
current_cycle_day_wrapped(now, last_period) == ((now - last_period) % 28) + 1

current_cycle_day(now, last_period) == (now - last_period) + 1

calculate_cycle_stats(es, now) ==
    LET period_starts == _get_period_starts(es)
    IN IF Len(period_starts) < 2
       THEN sparse_stats(period_starts)
       ELSE LET cycle_lengths == cycle_lengths_loop(period_starts, 2, <<>>)
                period_lengths == period_lengths_loop(es, period_starts, 1, <<>>)
                avg_cycle_length == IF cycle_lengths # <<>> THEN mean(cycle_lengths)
                                    ELSE Rat(default_cycle_length, 1)
                avg_period_length == IF period_lengths # <<>> THEN mean(period_lengths)
                                     ELSE Rat(default_period_length, 1)
                last_period == period_starts[Len(period_starts)]
            IN CycleStats(Some(avg_cycle_length), Some(avg_period_length),
                   Some(last_period),
                   Some(next_period(last_period, avg_cycle_length)),
                   Some(next_ovulation(last_period, avg_cycle_length)),
                   Some(current_cycle_day(now, last_period)),
                   Some(_get_current_phase(current_cycle_day(now, last_period),
                                           avg_cycle_length)),
                   Len(period_starts))

HormoneLevel(e, p, t) == [estrogen_level |-> e, progesterone_level |-> p, testosterone_level |-> t]

_predict_hormone_levels(cycle_day, cycle_length) ==
    LET phase == _get_current_phase(cycle_day, cycle_length)
    IN IF phase = "menstrual" THEN HormoneLevel("low", "low", "medium")
       ELSE IF phase = "follicular"
            THEN HormoneLevel(IF cycle_day < 10 THEN "medium" ELSE "high", "low", "medium")
       ELSE IF phase = "ovulation" THEN HormoneLevel("high", "low", "high")
       ELSE HormoneLevel("medium", "high", "low")

\* every string the engine puts in a set, in a fixed numbering
StrNames == <<"happy", "sad", "anxious", "irritable", "calm",
              "energetic", "tired", "emotional", "confident",
              "cramps", "bloating", "headache", "breast_tenderness",
              "back_pain", "nausea", "acne", "food_cravings",
              "fatigue", "mood", "sleep_quality",
              "predicted_headache", "predicted_cramps", "predicted_nausea",
              "predicted_fatigue", "predicted_mood", "predicted_sleep",
              "predicted_mood_changes">>
StrCode(m) == CHOOSE i \in 1..Len(StrNames) : StrNames[i] = m

\* hash(m) under a seed: a seed-dependent injective ranking of the strings
\* (multiplication by seed + 1 modulo the prime 29)
StrHash(m, seed) == (StrCode(m) * (seed + 1)) % 29

\* list(set(xs)): the distinct elements, in the iteration order of the set,
\* which the process's hash seed fixes
RECURSIVE set_iteration(_, _)
set_iteration(S, seed) ==
    IF S = {} THEN <<>>
    ELSE LET m == CHOOSE x \in S : \A y \in S : StrHash(x, seed) <= StrHash(y, seed)
         IN <<m>> \o set_iteration(S \ {m}, seed)

Range(s) == {s[i] : i \in 1..Len(s)}
Count(s, x) == Cardinality({i \in 1..Len(s) : s[i] = x})
Take(s, n) == SubSeq(s, 1, IF Len(s) < n THEN Len(s) ELSE n)

RECURSIVE Flatten(_)
Flatten(ss) == IF ss = <<>> THEN <<>> ELSE ss[1] \o Flatten(Tail(ss))

phase_moods(phase) ==
    IF phase = "menstrual" THEN <<"tired", "emotional", "irritable">>
    ELSE IF phase = "follicular" THEN <<"energetic", "happy", "calm">>
    ELSE IF phase = "ovulation" THEN <<"happy", "energetic", "confident">>
    ELSE IF phase = "luteal" THEN <<"anxious", "irritable", "sad">>
    ELSE <<>>

\* every historical mood taken, however rare
_predict_mood_all_history(phase, es, seed) ==
    LET historical_moods == Flatten([i \in 1..Len(es) |-> es[i].moods])
        predicted == phase_moods(phase) \o set_iteration(Range(historical_moods), seed)
    IN Take(set_iteration(Range(predicted), seed), 3)

_predict_mood(phase, es, seed) ==
    LET historical_moods == Flatten([i \in 1..Len(es) |-> es[i].moods])
        IsCommon(mood) == 10 * Count(historical_moods, mood) > Len(es)
        common_moods == SelectSeq(set_iteration(Range(historical_moods), seed), IsCommon)
        predicted == phase_moods(phase) \o
                     (IF historical_moods # <<>> THEN common_moods ELSE <<>>)
    IN Take(set_iteration(Range(predicted), seed), 3)

_predict_symptoms(phase, es) ==
    IF phase = "menstrual" THEN <<"cramps", "bloating", "back_pain">>
    ELSE IF phase = "follicular" THEN <<>>
    ELSE IF phase = "ovulation" THEN <<"breast_tenderness">>
    ELSE IF phase = "luteal" THEN <<"bloating", "headache", "food_cravings", "acne">>
    ELSE <<>>

\* ovulation taken to fall on day 14 whatever the cycle length
_predict_fertility_day_14(cycle_day, cycle_length) ==
    IF Abs(cycle_day - 14) <= 1 THEN "high"
    ELSE IF Abs(cycle_day - 14) <= 3 THEN "medium"
    ELSE "low"

_predict_fertility(cycle_day, cycle_length) ==
    LET ovulation_day == RatMinus(cycle_length, luteal_phase_length)
    IN IF AbsDiffLe(cycle_day, ovulation_day, 1) THEN "high"
       ELSE IF AbsDiffLe(cycle_day, ovulation_day, 3) THEN "medium"
       ELSE "low"

cycle_day_of_unwrapped(days_since_last_period, cycle_length) ==
    days_since_last_period + 1

\* Python's %: the result has the sign of the (positive) divisor
cycle_day_of(days_since_last_period, cycle_length) ==
    (days_since_last_period % int(cycle_length)) + 1

CyclePrediction(es, seed, prediction_date, last_period_start, cycle_length) ==
    LET days_since_last_period == prediction_date - last_period_start
        cycle_day == cycle_day_of(days_since_last_period, cycle_length)
        phase == _get_current_phase(cycle_day, cycle_length)
    IN [date |-> prediction_date,
        cycle_day |-> cycle_day,
        phase |-> phase,
        predicted_mood |-> _predict_mood(phase, es, seed),
        predicted_symptoms |-> _predict_symptoms(phase, es),
        hormone_levels |-> _predict_hormone_levels(cycle_day, cycle_length),
        fertility_status |-> _predict_fertility(cycle_day, cycle_length)]

\* the same returning nothing when the stats carry no average cycle length
generate_predictions_needs_average(es, days_ahead, now, seed) ==
    LET stats == calculate_cycle_stats(es, now)
    IN IF stats.last_period_start = None \/ stats.average_cycle_length = None THEN <<>>
       ELSE LET cycle_length == stats.average_cycle_length[1]
            IN [k \in 1..days_ahead |->
                   CyclePrediction(es, seed, now + (k - 1),
                                   stats.last_period_start[1], cycle_length)]

generate_predictions(es, days_ahead, now, seed) ==
    LET stats == calculate_cycle_stats(es, now)
    IN IF stats.last_period_start = None THEN <<>>
       ELSE LET cycle_length == IF stats.average_cycle_length # None
                                THEN stats.average_cycle_length[1]
                                ELSE Rat(default_cycle_length, 1)
            IN [k \in 1..days_ahead |->
                   CyclePrediction(es, seed, now + (k - 1),
                                   stats.last_period_start[1], cycle_length)]

(*************************** SymptomPredictor *******************************)
\* fractions: x + y, x > n/d, x < y
RatAdd(a, b) == Rat(a.num * b.den + b.num * a.den, a.den * b.den)
RatGt(r, n, d) == r.num * d > n * r.den
RatLess(a, b) == a.num * b.den < b.num * a.den

RECURSIVE RatSum(_)
RatSum(s) == IF s = <<>> THEN Rat(0, 1) ELSE RatAdd(s[1], RatSum(Tail(s)))

\* statistics.mean of a non-empty list of floats
rat_mean(s) == LET t == RatSum(s) IN Rat(t.num, t.den * Len(s))

PredictedSymptom(s, p, c) == [symptom |-> s, probability |-> p, confidence |-> c]

\* cycle_patterns of __init__
early_cycle == 1..5
mid_cycle == 6..14
late_cycle == 15..28

SymptomFlags == <<"headache", "nausea", "fatigue", "cramps">>

\* the tests of _analyze_symptom_sequences, in the order it makes them
HasSymptom(symptom, name) ==
    IF name = "headache" THEN symptom.headache
    ELSE IF name = "nausea" THEN symptom.nausea
    ELSE IF name = "fatigue" THEN symptom.fatigue
    ELSE symptom.cramps # None /\ symptom.cramps[1] # "none"

\* the keys of the patterns dict, in insertion order
RECURSIVE pattern_keys(_, _, _, _)
pattern_keys(symptoms, i, j, keys) ==
    IF i > Len(symptoms) THEN keys
    ELSE IF j > Len(SymptomFlags) THEN pattern_keys(symptoms, i + 1, 1, keys)
    ELSE pattern_keys(symptoms, i, j + 1,
             IF HasSymptom(symptoms[i], SymptomFlags[j]) /\ SymptomFlags[j] \notin Range(keys)
             THEN Append(keys, SymptomFlags[j]) ELSE keys)

_analyze_symptom_sequences(symptoms) ==
    LET keys == pattern_keys(symptoms, 1, 1, <<>>)
        total_days == Len(symptoms)
    IN [k \in 1..Len(keys) |->
           [symptom |-> keys[k],
            strength |-> Rat(Cardinality({i \in 1..Len(symptoms) :
                                            HasSymptom(symptoms[i], keys[k])}),
                             total_days)]]

\* the same with a pattern strength of 0.6 counted as strong
_predict_by_patterns_at_least(recent_symptoms, target_date) ==
    IF Len(recent_symptoms) < 3 THEN <<>>
    ELSE LET symptom_sequences == _analyze_symptom_sequences(recent_symptoms)
             Strong(e) == ~RatLess(e.strength, Rat(6, 10))
             strong == SelectSeq(symptom_sequences, Strong)
         IN [k \in 1..Len(strong) |->
                PredictedSymptom(strong[k].symptom, strong[k].strength,
                    IF RatGt(strong[k].strength, 8, 10) THEN "high" ELSE "medium")]

_predict_by_patterns(recent_symptoms, target_date) ==
    IF Len(recent_symptoms) < 3 THEN <<>>
    ELSE LET symptom_sequences == _analyze_symptom_sequences(recent_symptoms)
             Strong(e) == RatGt(e.strength, 6, 10)
             strong == SelectSeq(symptom_sequences, Strong)
         IN [k \in 1..Len(strong) |->
                PredictedSymptom(strong[k].symptom, strong[k].strength,
                    IF RatGt(strong[k].strength, 8, 10) THEN "high" ELSE "medium")]

\* the same scanning forward: the first record with a flow
_find_last_flow_date_forward(symptoms) ==
    LET flow == {i \in 1..Len(symptoms) :
                    /\ symptoms[i].flow_level # None
                    /\ symptoms[i].flow_level[1] \in {"light", "medium", "heavy"}}
    IN IF flow = {} THEN None
       ELSE Some(symptoms[CHOOSE i \in flow : \A j \in flow : i <= j].date)

_find_last_flow_date(symptoms) ==
    LET flow == {i \in 1..Len(symptoms) :
                    /\ symptoms[i].flow_level # None
                    /\ symptoms[i].flow_level[1] \in {"light", "medium", "heavy"}}
    IN IF flow = {} THEN None
       ELSE Some(symptoms[CHOOSE i \in flow : \A j \in flow : j <= i].date)

\* the same with the late-cycle headache at 0.4
_get_cycle_phase_predictions_faint(cycle_day) ==
    IF cycle_day \in early_cycle
    THEN <<PredictedSymptom("cramps", Rat(7, 10), "medium"),
           PredictedSymptom("fatigue", Rat(6, 10), "medium")>>
    ELSE IF cycle_day \in late_cycle
    THEN <<PredictedSymptom("mood_changes", Rat(6, 10), "medium"),
           PredictedSymptom("headache", Rat(4, 10), "low")>>
    ELSE <<>>

_get_cycle_phase_predictions(cycle_day) ==
    IF cycle_day \in early_cycle
    THEN <<PredictedSymptom("cramps", Rat(7, 10), "medium"),
           PredictedSymptom("fatigue", Rat(6, 10), "medium")>>
    ELSE IF cycle_day \in late_cycle
    THEN <<PredictedSymptom("mood_changes", Rat(6, 10), "medium"),
           PredictedSymptom("headache", Rat(5, 10), "low")>>
    ELSE <<>>

_predict_by_cycle_phase(recent_symptoms, target_date) ==
    IF recent_symptoms = <<>> THEN <<>>
    ELSE LET last_flow_date == _find_last_flow_date(recent_symptoms)
         IN IF last_flow_date # None
            THEN _get_cycle_phase_predictions((target_date - last_flow_date[1]) + 1)
            ELSE <<>>

_get_sequence_predictions(yesterday) ==
    (IF yesterday.cramps = Some("strong")
     THEN <<PredictedSymptom("cramps", Rat(6, 10), "medium")>> ELSE <<>>)
    \o
    (IF yesterday.sleep_quality = Some("poor")
     THEN <<PredictedSymptom("fatigue", Rat(8, 10), "high")>> ELSE <<>>)

\* the same looking at recent_symptoms[0], the oldest record
_predict_by_sequence_oldest(recent_symptoms, target_date) ==
    IF Len(recent_symptoms) < 2 THEN <<>>
    ELSE _get_sequence_predictions(recent_symptoms[1])

_predict_by_sequence(recent_symptoms, target_date) ==
    IF Len(recent_symptoms) < 2 THEN <<>>
    ELSE _get_sequence_predictions(recent_symptoms[Len(recent_symptoms)])

\* the keys of symptom_groups, in insertion order
RECURSIVE group_keys(_, _, _)
group_keys(predictions, i, keys) ==
    IF i > Len(predictions) THEN keys
    ELSE group_keys(predictions, i + 1,
             IF predictions[i].symptom \in Range(keys) THEN keys
             ELSE Append(keys, predictions[i].symptom))

\* sorted(merged, key=probability, reverse=True): stable, descending
RECURSIVE sort_by_probability(_)
sort_by_probability(s) ==
    IF s = <<>> THEN <<>>
    ELSE LET t == sort_by_probability(SubSeq(s, 1, Len(s) - 1))
             e == s[Len(s)]
             k == Cardinality({i \in 1..Len(t) : ~RatLess(t[i].probability, e.probability)})
         IN SubSeq(t, 1, k) \o <<e>> \o SubSeq(t, k + 1, Len(t))

\* the same keeping the probability of the first candidate of each group
_merge_predictions_first(predictions) ==
    LET keys == group_keys(predictions, 1, <<>>)
        Probs(symptom) ==
            LET InGroup(q) == q.symptom = symptom
                preds == SelectSeq(predictions, InGroup)
            IN [i \in 1..Len(preds) |-> preds[i].probability]
        merged == [k \in 1..Len(keys) |->
                      LET avg_prob == Probs(keys[k])[1]
                      IN PredictedSymptom(keys[k], avg_prob,
                             IF RatGt(avg_prob, 7, 10) THEN "high"
                             ELSE IF RatGt(avg_prob, 4, 10) THEN "medium" ELSE "low")]
    IN sort_by_probability(merged)

_merge_predictions(predictions) ==
    LET keys == group_keys(predictions, 1, <<>>)
        Probs(symptom) ==
            LET InGroup(q) == q.symptom = symptom
                preds == SelectSeq(predictions, InGroup)
            IN [i \in 1..Len(preds) |-> preds[i].probability]
        merged == [k \in 1..Len(keys) |->
                      LET avg_prob == rat_mean(Probs(keys[k]))
                      IN PredictedSymptom(keys[k], avg_prob,
                             IF RatGt(avg_prob, 7, 10) THEN "high"
                             ELSE IF RatGt(avg_prob, 4, 10) THEN "medium" ELSE "low")]
    IN sort_by_probability(merged)

\* the two parts added, not averaged
_calculate_confidence_not_halved(recent_symptoms, predictions) ==
    IF predictions = <<>> THEN Rat(0, 1)
    ELSE LET data_confidence == IF Len(recent_symptoms) < 7
                                THEN Rat(Len(recent_symptoms), 7) ELSE Rat(1, 1)
             prediction_confidence ==
                 rat_mean([i \in 1..Len(predictions) |-> predictions[i].probability])
         IN RatAdd(data_confidence, prediction_confidence)

_calculate_confidence(recent_symptoms, predictions) ==
    IF predictions = <<>> THEN Rat(0, 1)
    ELSE LET data_confidence == IF Len(recent_symptoms) < 7
                                THEN Rat(Len(recent_symptoms), 7) ELSE Rat(1, 1)
             prediction_confidence ==
                 rat_mean([i \in 1..Len(predictions) |-> predictions[i].probability])
             total == RatAdd(data_confidence, prediction_confidence)
         IN Rat(total.num, total.den * 2)

PredictionResponse(d, ps, cs, days) ==
    [date |-> d, predicted_symptoms |-> ps, confidence_score |-> cs, based_on_days |-> days]

\* sorted_symptoms[:7]: the seven oldest
LastSeven_oldest(s) == SubSeq(s, 1, IF Len(s) > 7 THEN 7 ELSE Len(s))

\* sorted_symptoms[-7:]
LastSeven(s) == SubSeq(s, IF Len(s) > 7 THEN Len(s) - 6 ELSE 1, Len(s))

predict_tomorrow_symptoms(user_symptoms, target_date) ==
    IF user_symptoms = <<>> THEN PredictionResponse(target_date, <<>>, Rat(0, 1), 0)
    ELSE LET sorted_symptoms == sorted(user_symptoms).local
             recent_symptoms == LastSeven(sorted_symptoms)
             predictions == _predict_by_patterns(recent_symptoms, target_date)
                            \o _predict_by_cycle_phase(recent_symptoms, target_date)
                            \o _predict_by_sequence(recent_symptoms, target_date)
             unique_predictions == _merge_predictions(predictions)
         IN PredictionResponse(target_date, unique_predictions,
                _calculate_confidence(recent_symptoms, unique_predictions),
                Len(recent_symptoms))

(**************************** SuggestionEngine ******************************)
Suggestion(c, t, d, p) == [category |-> c, title |-> t, description |-> d, priority |-> p]

CatalogKeys == {"headache", "cramps", "nausea", "fatigue", "mood", "sleep"}

CatalogEntries(key) ==
    IF key = "headache" THEN
      <<Suggestion("remedy", "Stay Hydrated",
            "Drink plenty of water throughout the day. Dehydration is a common headache trigger.",
            "high"),
        Suggestion("lifestyle", "Rest in Dark Room",
            "Find a quiet, dark room to rest. Reduce screen time and bright lights.",
            "high"),
        Suggestion("remedy", "Cold/Warm Compress",
            "Apply a cold compress to your forehead or a warm compress to your neck and shoulders.",
            "medium"),
        Suggestion("medical", "Over-the-Counter Pain Relief",
            "Consider ibuprofen or acetaminophen as directed. Consult healthcare provider if frequent.",
            "medium")>>
    ELSE IF key = "cramps" THEN
      <<Suggestion("remedy", "Heat Therapy",
            "Use a heating pad or hot water bottle on your lower abdomen or back.",
            "high"),
        Suggestion("lifestyle", "Gentle Exercise",
            "Try light walking, yoga, or stretching to help relieve cramps.",
            "high"),
        Suggestion("remedy", "Warm Bath",
            "Take a warm bath with Epsom salts to relax muscles and reduce pain.",
            "medium"),
        Suggestion("medical", "Anti-inflammatory Medication",
            "Consider ibuprofen or naproxen to reduce inflammation and pain.",
            "medium")>>
    ELSE IF key = "nausea" THEN
      <<Suggestion("remedy", "Ginger Tea",
            "Drink ginger tea or chew on fresh ginger to help settle your stomach.",
            "high"),
        Suggestion("lifestyle", "Small, Frequent Meals",
            "Eat small, bland meals throughout the day. Avoid greasy or spicy foods.",
            "high"),
        Suggestion("remedy", "Peppermint",
            "Try peppermint tea or aromatherapy to help reduce nausea.",
            "medium")>>
    ELSE IF key = "fatigue" THEN
      <<Suggestion("lifestyle", "Prioritize Sleep",
            "Aim for 7-9 hours of quality sleep. Maintain a consistent sleep schedule.",
            "high"),
        Suggestion("lifestyle", "Iron-Rich Foods",
            "Include iron-rich foods like spinach, lean meats, and legumes in your diet.",
            "high"),
        Suggestion("lifestyle", "Light Exercise",
            "Gentle exercise can boost energy levels. Try a short walk or light stretching.",
            "medium")>>
    ELSE IF key = "mood" THEN
      <<Suggestion("lifestyle", "Mindfulness Practice",
            "Try meditation, deep breathing, or mindfulness exercises for 10-15 minutes.",
            "high"),
        Suggestion("lifestyle", "Social Connection",
            "Reach out to friends or family. Social support can improve mood.",
            "medium"),
        Suggestion("lifestyle", "Sunlight Exposure",
            "Spend time outdoors or near a bright window to boost mood naturally.",
            "medium")>>
    ELSE IF key = "sleep" THEN
      <<Suggestion("lifestyle", "Sleep Hygiene",
            "Create a relaxing bedtime routine. Avoid screens 1 hour before bed.",
            "high"),
        Suggestion("remedy", "Herbal Tea",
            "Try chamomile or valerian root tea 30 minutes before bedtime.",
            "medium"),
        Suggestion("lifestyle", "Cool, Dark Environment",
            "Keep your bedroom cool (65-68F) and as dark as possible.",
            "medium")>>
    ELSE <<>>

_load_suggestion_database == [key \in CatalogKeys |-> CatalogEntries(key)]

\* hydration only
_get_general_wellness_suggestions_hydration_only ==
    <<Suggestion("lifestyle", "Stay Hydrated",
          "Drink at least 8 glasses of water throughout the day.", "low")>>

_get_general_wellness_suggestions ==
    <<Suggestion("lifestyle", "Stay Hydrated",
          "Drink at least 8 glasses of water throughout the day.", "low"),
      Suggestion("lifestyle", "Balanced Nutrition",
          "Include fruits, vegetables, and whole grains in your meals.", "low")>>

\* the conditions of _get_current_symptom_suggestions, in the order it tests
\* them: the catalog key read and the factor recorded
CurrentConditions ==
    <<[key |-> "headache", factor |-> "headache"],
      [key |-> "cramps", factor |-> "cramps"],
      [key |-> "nausea", factor |-> "nausea"],
      [key |-> "fatigue", factor |-> "fatigue"],
      [key |-> "mood", factor |-> "mood"],
      [key |-> "sleep", factor |-> "sleep_quality"]>>

\* cramps tested as the frequency heuristic tests them: set and not "none"
ConditionHolds_any_cramps(symptoms, key) ==
    IF key = "headache" THEN symptoms.headache
    ELSE IF key = "cramps"
         THEN symptoms.cramps # None /\ symptoms.cramps[1] # "none"
    ELSE IF key = "nausea" THEN symptoms.nausea
    ELSE IF key = "fatigue" THEN symptoms.fatigue
    ELSE IF key = "mood"
         THEN symptoms.mood # None /\ symptoms.mood[1] \in {"sad", "irritated", "anxious", "depressed"}
    ELSE symptoms.sleep_quality # None /\ symptoms.sleep_quality[1] \in {"poor", "fair"}

ConditionHolds(symptoms, key) ==
    IF key = "headache" THEN symptoms.headache
    ELSE IF key = "cramps"
         THEN symptoms.cramps # None /\ symptoms.cramps[1] \in {"moderate", "strong"}
    ELSE IF key = "nausea" THEN symptoms.nausea
    ELSE IF key = "fatigue" THEN symptoms.fatigue
    ELSE IF key = "mood"
         THEN symptoms.mood # None /\ symptoms.mood[1] \in {"sad", "irritated", "anxious", "depressed"}
    ELSE symptoms.sleep_quality # None /\ symptoms.sleep_quality[1] \in {"poor", "fair"}

RECURSIVE current_suggestions_loop(_, _, _, _, _)
current_suggestions_loop(database, symptoms, i, suggestions, based_on) ==
    IF i > Len(CurrentConditions) THEN [suggestions |-> suggestions, based_on |-> based_on]
    ELSE IF ConditionHolds(symptoms, CurrentConditions[i].key)
         THEN current_suggestions_loop(database, symptoms, i + 1,
                  suggestions \o database[CurrentConditions[i].key],
                  Append(based_on, CurrentConditions[i].factor))
    ELSE current_suggestions_loop(database, symptoms, i + 1, suggestions, based_on)

_get_current_symptom_suggestions(database, symptoms) ==
    current_suggestions_loop(database, symptoms, 1, <<>>, <<>>)

\* the entries of the list passed in are rewritten in place
_convert_to_preventive_in_place(suggestions) ==
    LET Converted(x) == Suggestion("preventive", "Prevent: " \o x.title,
                            "To prevent symptoms: " \o x.description, "low")
        IsLifestyle(x) == x.category = "lifestyle"
        lifestyle == SelectSeq(suggestions, IsLifestyle)
    IN [preventive |-> [i \in 1..Len(lifestyle) |-> Converted(lifestyle[i])],
        source |-> [i \in 1..Len(suggestions) |->
                       IF suggestions[i].category = "lifestyle"
                       THEN Converted(suggestions[i]) ELSE suggestions[i]]]

\* the preventive copies of the lifestyle entries (preventive) and the list
\* passed in as the call leaves it (source)
_convert_to_preventive(suggestions) ==
    LET IsLifestyle(x) == x.category = "lifestyle"
        lifestyle == SelectSeq(suggestions, IsLifestyle)
    IN [preventive |->
           [i \in 1..Len(lifestyle) |->
               Suggestion("preventive", "Prevent: " \o lifestyle[i].title,
                   "To prevent symptoms: " \o lifestyle[i].description, "low")],
        source |-> suggestions]

\* probability >= 0.7 taken for > 0.7
RECURSIVE preventive_loop_at_least(_, _, _, _, _)
preventive_loop_at_least(database, predicted_symptoms, i, suggestions, based_on) ==
    IF i > Len(predicted_symptoms)
    THEN [suggestions |-> suggestions, based_on |-> based_on, database |-> database]
    ELSE LET pred == predicted_symptoms[i]
         IN IF ~RatLess(pred.probability, Rat(7, 10)) /\ pred.symptom \in DOMAIN database
            THEN LET converted == _convert_to_preventive(database[pred.symptom])
                 IN preventive_loop_at_least(
                        [database EXCEPT ![pred.symptom] = converted.source],
                        predicted_symptoms, i + 1,
                        suggestions \o converted.preventive,
                        Append(based_on, "predicted_" \o pred.symptom))
            ELSE preventive_loop_at_least(database, predicted_symptoms, i + 1,
                                          suggestions, based_on)

RECURSIVE preventive_loop(_, _, _, _, _)
preventive_loop(database, predicted_symptoms, i, suggestions, based_on) ==
    IF i > Len(predicted_symptoms)
    THEN [suggestions |-> suggestions, based_on |-> based_on, database |-> database]
    ELSE LET pred == predicted_symptoms[i]
         IN IF RatGt(pred.probability, 7, 10) /\ pred.symptom \in DOMAIN database
            THEN LET converted == _convert_to_preventive(database[pred.symptom])
                 IN preventive_loop(
                        [database EXCEPT ![pred.symptom] = converted.source],
                        predicted_symptoms, i + 1,
                        suggestions \o converted.preventive,
                        Append(based_on, "predicted_" \o pred.symptom))
            ELSE preventive_loop(database, predicted_symptoms, i + 1, suggestions, based_on)

_get_preventive_suggestions(database, predicted_symptoms) ==
    preventive_loop(database, predicted_symptoms, 1, <<>>, <<>>)

\* priority_order.get(x.priority, 3)
priority_order(priority) ==
    IF priority = "high" THEN 0
    ELSE IF priority = "medium" THEN 1
    ELSE IF priority = "low" THEN 2
    ELSE 3

\* sorted(suggestions, key=priority rank): stable, ascending
RECURSIVE sort_by_priority(_)
sort_by_priority(s) ==
    IF s = <<>> THEN <<>>
    ELSE LET t == sort_by_priority(SubSeq(s, 1, Len(s) - 1))
             e == s[Len(s)]
             k == Cardinality({i \in 1..Len(t) :
                     priority_order(t[i].priority) <= priority_order(e.priority)})
         IN SubSeq(t, 1, k) \o <<e>> \o SubSeq(t, k + 1, Len(t))

RECURSIVE unique_loop(_, _, _, _)
unique_loop(sorted_suggestions, i, seen, unique) ==
    IF i > Len(sorted_suggestions) THEN unique
    ELSE LET key == <<sorted_suggestions[i].title, sorted_suggestions[i].category>>
         IN IF key \notin seen
            THEN unique_loop(sorted_suggestions, i + 1, seen \cup {key},
                     Append(unique, sorted_suggestions[i]))
            ELSE unique_loop(sorted_suggestions, i + 1, seen, unique)

\* the same without the sort by priority
_deduplicate_suggestions_unsorted(suggestions) ==
    Take(unique_loop(suggestions, 1, {}, <<>>), 10)

\* the whole list returned, not its first 10
_deduplicate_suggestions_untruncated(suggestions) ==
    unique_loop(sort_by_priority(suggestions), 1, {}, <<>>)

_deduplicate_suggestions(suggestions) ==
    Take(unique_loop(sort_by_priority(suggestions), 1, {}, <<>>), 10)

\* the response, and the catalog as the call leaves it
generate_suggestions(database, current_symptoms, predicted_symptoms, now, seed) ==
    LET current == IF current_symptoms # None
                   THEN _get_current_symptom_suggestions(database, current_symptoms[1])
                   ELSE [suggestions |-> <<>>, based_on |-> <<>>]
        preventive == IF predicted_symptoms # <<>>
                      THEN _get_preventive_suggestions(database, predicted_symptoms)
                      ELSE [suggestions |-> <<>>, based_on |-> <<>>, database |-> database]
        suggestions == current.suggestions \o preventive.suggestions
                       \o _get_general_wellness_suggestions
        based_on_symptoms == current.based_on \o preventive.based_on
    IN [response |->
           [suggestions |-> _deduplicate_suggestions(suggestions),
            based_on_symptoms |-> set_iteration(Range(based_on_symptoms), seed),
            date |-> IF current_symptoms # None THEN current_symptoms[1].date ELSE now],
        database |-> preventive.database]

(************************** PatternAnalyzer *********************************)
\* the same without list(set(...)): the moods as they were logged
analyze_mood_patterns_as_logged(es, seed) ==
    LET menstrual == Flatten([i \in 1..Len(es) |-> es[i].moods])
    IN [menstrual |-> menstrual,
        follicular |-> <<>>, ovulation |-> <<>>, luteal |-> <<>>]

analyze_mood_patterns(es, seed) ==
    LET menstrual == Flatten([i \in 1..Len(es) |-> es[i].moods])
    IN [menstrual |-> set_iteration(Range(menstrual), seed),
        follicular |-> <<>>, ovulation |-> <<>>, luteal |-> <<>>]

analyze_symptom_patterns(es, seed) ==
    LET menstrual == Flatten([i \in 1..Len(es) |-> es[i].physical_symptoms])
    IN [menstrual |-> set_iteration(Range(menstrual), seed),
        follicular |-> <<>>, ovulation |-> <<>>, luteal |-> <<>>]

(***************************** operations ***********************************)
Entry(d, p, m) == [date |-> d, is_period_day |-> p, moods |-> m, physical_symptoms |-> <<>>]

\* the elements of a finite set of integers, ascending
RECURSIVE Ascending(_)
Ascending(S) ==
    IF S = {} THEN <<>>
    ELSE LET m == CHOOSE x \in S : \A y \in S : x <= y
         IN <<m>> \o Ascending(S \ {m})

Reverse(s) == [i \in 1..Len(s) |-> s[Len(s) + 1 - i]]

\* histories with one entry per date, listed oldest first or newest first
DatedHistories ==
    UNION { UNION { LET a == Ascending(S)
                        h == [i \in 1..Len(a) |-> Entry(a[i], f[a[i]], <<>>)]
                    IN {h, Reverse(h)} : f \in [S -> BOOLEAN] }
            : S \in {T \in SUBSET Dates : Cardinality(T) <= MaxEntries} }

\* short histories in any order, dates repeated, moods logged
ShortEntries == {Entry(d, p, m) : d \in ShortDates, p \in BOOLEAN, m \in MoodLists}
ShortHistories == UNION {[1..n -> ShortEntries] : n \in 1..MaxShort}

\* no symptom log, no call made yet, the catalog as the constructor loads it
Fresh ==
    /\ symptom_log = <<>>
    /\ today_symptoms = None
    /\ suggestion_database = _load_suggestion_database
    /\ op = "none"
    /\ arg = <<>>
    /\ result = <<>>
    /\ calls = <<>>
    /\ cycle_collection = <<>>
    /\ requests = <<>>

\* the hash seed matters only where moods are logged
Init ==
    /\ \/ entries \in DatedHistories /\ hashseed = 0
       \/ entries \in ShortHistories /\ hashseed \in 0..(NumSeeds - 1)
    /\ today \in Todays
    /\ Fresh

\* what the caller hands over with a call
Passed == [entries |-> entries, symptom_log |-> symptom_log,
           today_symptoms |-> today_symptoms, today |-> today]

\* the call is added to the record of calls
Recorded ==
    calls' = Append(calls, [op |-> op', arg |-> arg', passed |-> Passed, result |-> result'])

calculate_cycle_stats_call ==
    /\ op' = "calculate_cycle_stats"
    /\ arg' = <<>>
    /\ result' = calculate_cycle_stats(entries, today)
    /\ entries' = sorted(entries).caller
    /\ UNCHANGED <<cycle_collection, requests>>
    /\ UNCHANGED <<today, hashseed, symptom_log, today_symptoms, suggestion_database>>

generate_predictions_call(days_ahead) ==
    /\ op' = "generate_predictions"
    /\ arg' = <<days_ahead>>
    /\ result' = generate_predictions(entries, days_ahead, today, hashseed)
    /\ entries' = sorted(entries).caller
    /\ UNCHANGED <<cycle_collection, requests>>
    /\ UNCHANGED <<today, hashseed, symptom_log, today_symptoms, suggestion_database>>

get_period_starts_call ==
    /\ op' = "_get_period_starts"
    /\ arg' = <<>>
    /\ result' = _get_period_starts(entries)
    /\ entries' = sorted(entries).caller
    /\ UNCHANGED <<cycle_collection, requests>>
    /\ UNCHANGED <<today, hashseed, symptom_log, today_symptoms, suggestion_database>>

analyze_mood_patterns_call ==
    /\ op' = "analyze_mood_patterns"
    /\ arg' = <<>>
    /\ result' = analyze_mood_patterns(entries, hashseed)
    /\ UNCHANGED <<cycle_collection, requests>>
    /\ UNCHANGED <<entries, today, hashseed, symptom_log, today_symptoms, suggestion_database>>

analyze_symptom_patterns_call ==
    /\ op' = "analyze_symptom_patterns"
    /\ arg' = <<>>
    /\ result' = analyze_symptom_patterns(entries, hashseed)
    /\ UNCHANGED <<cycle_collection, requests>>
    /\ UNCHANGED <<entries, today, hashseed, symptom_log, today_symptoms, suggestion_database>>

predict_tomorrow_symptoms_call(target_date) ==
    /\ op' = "predict_tomorrow_symptoms"
    /\ arg' = <<target_date>>
    /\ result' = predict_tomorrow_symptoms(symptom_log, target_date)
    /\ symptom_log' = (IF symptom_log = <<>> THEN symptom_log ELSE sorted(symptom_log).caller)
    /\ UNCHANGED <<cycle_collection, requests>>
    /\ UNCHANGED <<entries, today, hashseed, today_symptoms, suggestion_database>>

generate_suggestions_call(predicted_symptoms) ==
    LET out == generate_suggestions(suggestion_database, today_symptoms,
                                    predicted_symptoms, today, hashseed)
    IN /\ op' = "generate_suggestions"
       /\ arg' = <<predicted_symptoms>>
       /\ result' = out.response
       /\ suggestion_database' = out.database
       /\ UNCHANGED <<cycle_collection, requests>>
       /\ UNCHANGED <<entries, today, hashseed, symptom_log, today_symptoms>>

(************* one call of the cycle calculator on a snapshot ***************)
CalculateCycleStats ==
    /\ op = "none"
    /\ calculate_cycle_stats_call
    /\ UNCHANGED calls

GeneratePredictions ==
    /\ op = "none"
    /\ \E days_ahead \in 0..MaxDaysAhead : generate_predictions_call(days_ahead)
    /\ UNCHANGED calls

GetPeriodStarts ==
    /\ op = "none"
    /\ get_period_starts_call
    /\ UNCHANGED calls

Next == CalculateCycleStats \/ GeneratePredictions \/ GetPeriodStarts

Spec == Init /\ [][Next]_vars

(******************** PhaseClassifier on its own ****************************)
MaxCycleDay == 40      \* cycle_day ranges over -MaxCycleDay..MaxCycleDay
MaxLength == 40        \* cycle_length ranges over w + f/d, w <= MaxLength,
MaxLengthDen == 3      \*   d <= MaxLengthDen and f < d

CycleDays == (0 - MaxCycleDay)..MaxCycleDay
CycleLengths ==
    UNION {{Rat(w * d + f, d) : w \in 0..MaxLength, f \in 0..(d - 1)} : d \in 1..MaxLengthDen}

InitPhase ==
    /\ entries = <<>>
    /\ today = 0
    /\ hashseed = 0
    /\ Fresh

GetCurrentPhase ==
    /\ op = "none"
    /\ \E cycle_day \in CycleDays, cycle_length \in CycleLengths :
          /\ op' = "_get_current_phase"
          /\ arg' = <<cycle_day, cycle_length>>
          /\ result' = _get_current_phase(cycle_day, cycle_length)
    /\ UNCHANGED <<entries, today, hashseed, symptom_log, today_symptoms,
                   suggestion_database, calls, cycle_collection, requests>>

NextPhase == GetCurrentPhase

SpecPhase == InitPhase /\ [][NextPhase]_vars

(************ a sequence of calls on one pair of engine instances ***********)
MaxCalls == 3          \* calls made in one run

Symptom(d, m, c, h, n, f, fl, sq) ==
    [date |-> d, mood |-> m, cramps |-> c, headache |-> h, nausea |-> n,
     fatigue |-> f, flow_level |-> fl, sleep_quality |-> sq]

Tired(d) == Symptom(d, Some("sad"), Some("none"), FALSE, FALSE, TRUE, None, Some("poor"))
Aching(d) == Symptom(d, None, Some("strong"), TRUE, FALSE, FALSE, Some("heavy"), Some("good"))
Queasy(d) == Symptom(d, Some("happy"), None, FALSE, TRUE, FALSE, None, Some("good"))

EngineHistories ==
    {<<>>,
     <<Entry(21, TRUE, <<"sad", "calm">>), Entry(0, FALSE, <<"sad">>)>>,
     <<Entry(0, TRUE, <<>>), Entry(1, FALSE, <<"calm">>), Entry(22, TRUE, <<"tired">>)>>}

EngineLogs ==
    {<<>>,
     <<Tired(22), Tired(21)>>,
     <<Aching(20), Tired(21), Tired(22)>>}

EngineTodays == {22}

InitEngine ==
    /\ entries \in EngineHistories
    /\ symptom_log \in EngineLogs
    /\ today \in EngineTodays
    /\ today_symptoms \in {None, Some(Tired(today)), Some(Queasy(today))}
    /\ hashseed \in 0..(NumSeeds - 1)
    /\ suggestion_database = _load_suggestion_database
    /\ op = "none"
    /\ arg = <<>>
    /\ result = <<>>
    /\ calls = <<>>
    /\ cycle_collection = <<>>
    /\ requests = <<>>

MoreCalls == Len(calls) < MaxCalls

EngineCalculateCycleStats == MoreCalls /\ calculate_cycle_stats_call /\ Recorded

EngineGeneratePredictions ==
    /\ MoreCalls
    /\ generate_predictions_call(MaxDaysAhead)
    /\ Recorded

EngineAnalyzeMoodPatterns == MoreCalls /\ analyze_mood_patterns_call /\ Recorded

EngineAnalyzeSymptomPatterns == MoreCalls /\ analyze_symptom_patterns_call /\ Recorded

EnginePredictTomorrowSymptoms ==
    /\ MoreCalls
    /\ predict_tomorrow_symptoms_call(today + 1)
    /\ Recorded

\* the route passes the predictions of the log, or none
EngineGenerateSuggestions ==
    /\ MoreCalls
    /\ \E predicted_symptoms \in
            {<<>>, predict_tomorrow_symptoms(symptom_log, today + 1).predicted_symptoms} :
          generate_suggestions_call(predicted_symptoms)
    /\ Recorded

NextEngine ==
    \/ EngineCalculateCycleStats
    \/ EngineGeneratePredictions
    \/ EngineAnalyzeMoodPatterns
    \/ EngineAnalyzeSymptomPatterns
    \/ EnginePredictTomorrowSymptoms
    \/ EngineGenerateSuggestions

SpecEngine == InitEngine /\ [][NextEngine]_vars

(************* one call of the symptom predictor on a log ******************)
MaxLog == 8            \* entries of a symptom log

Unwell(d) == Symptom(d, Some("happy"), Some("mild"), FALSE, TRUE, FALSE, Some("none"), Some("fair"))

\* the record of one day: tired, aching (with flow) or unwell
DayRecord(kind, d) ==
    IF kind = "tired" THEN Tired(d)
    ELSE IF kind = "aching" THEN Aching(d)
    ELSE Unwell(d)

DayKinds == {"tired", "aching", "unwell"}

\* a log of up to MaxLog days ending on day 8, one record a day, given by
\* the kinds of its days
DailyLog(kinds) == [i \in 1..Len(kinds) |-> DayRecord(kinds[i], (8 - Len(kinds)) + i)]

\* the day after the last record of the log (the route's tomorrow), and the
\* days that put the records of the log up to three days ahead of the target,
\* one to two weeks behind it, and four weeks behind it
TargetDates == {5, 9, 15, 35}

InitPredictor ==
    /\ entries = <<>>
    /\ today = 8
    /\ hashseed = 0
    /\ \E n \in 0..MaxLog : \E kinds \in [1..n -> DayKinds] :
          \/ symptom_log = DailyLog(kinds)             \* oldest first
          \/ symptom_log = Reverse(DailyLog(kinds))    \* newest first, as the routes fetch
    /\ today_symptoms = None
    /\ suggestion_database = _load_suggestion_database
    /\ op = "none"
    /\ arg = <<>>
    /\ result = <<>>
    /\ calls = <<>>
    /\ cycle_collection = <<>>
    /\ requests = <<>>

PredictTomorrowSymptoms ==
    /\ op = "none"
    /\ \E target_date \in TargetDates : predict_tomorrow_symptoms_call(target_date)
    /\ UNCHANGED calls

NextPredictor == PredictTomorrowSymptoms

SpecPredictor == InitPredictor /\ [][NextPredictor]_vars

(********* one call of the symptom predictor on a log of two kinds *********)
WindowKinds == {"tired", "aching"}

InitWindow ==
    /\ entries = <<>>
    /\ today = 8
    /\ hashseed = 0
    /\ \E n \in 0..MaxLog : \E kinds \in [1..n -> WindowKinds] :
          \/ symptom_log = DailyLog(kinds)
          \/ symptom_log = Reverse(DailyLog(kinds))
    /\ today_symptoms = None
    /\ suggestion_database = _load_suggestion_database
    /\ op = "none"
    /\ arg = <<>>
    /\ result = <<>>
    /\ calls = <<>>
    /\ cycle_collection = <<>>
    /\ requests = <<>>

NextWindow == PredictTomorrowSymptoms

SpecWindow == InitWindow /\ [][NextWindow]_vars

(************ one call of the suggestion engine on a day's record **********)
\* the values of a day's record the suggestion conditions read
CrampsValues == {None, Some("mild"), Some("moderate"), Some("strong")}
MoodValues == {None, Some("happy"), Some("sad"), Some("irritated"), Some("anxious"), Some("depressed")}
SleepValues == {None, Some("good"), Some("fair"), Some("poor")}

\* lists of predictions handed to generate_suggestions: none; as the
\* predictor merges them (one entry a symptom, most probable first); a symptom
\* outside the catalog; and a symptom listed twice
PredictedLists ==
    {<<>>,
     <<PredictedSymptom("fatigue", Rat(8, 10), "high")>>,
     <<PredictedSymptom("cramps", Rat(7, 10), "medium"),
       PredictedSymptom("fatigue", Rat(31, 45), "medium")>>,
     <<PredictedSymptom("headache", Rat(1, 1), "high"),
       PredictedSymptom("nausea", Rat(9, 10), "high"),
       PredictedSymptom("cramps", Rat(23, 30), "high"),
       PredictedSymptom("fatigue", Rat(6, 10), "medium")>>,
     <<PredictedSymptom("mood_changes", Rat(8, 10), "high"),
       PredictedSymptom("headache", Rat(5, 10), "low")>>,
     <<PredictedSymptom("fatigue", Rat(9, 10), "high"),
       PredictedSymptom("fatigue", Rat(8, 10), "high")>>}

InitSuggestions ==
    /\ entries = <<>>
    /\ symptom_log = <<>>
    /\ today = 8
    /\ hashseed \in 0..(NumSeeds - 1)
    /\ \/ today_symptoms = None
       \/ \E m \in MoodValues, c \in CrampsValues, sq \in SleepValues :
          \E h \in BOOLEAN, n \in BOOLEAN, f \in BOOLEAN :
             today_symptoms = Some(Symptom(7, m, c, h, n, f, None, sq))
    /\ suggestion_database = _load_suggestion_database
    /\ op = "none"
    /\ arg = <<>>
    /\ result = <<>>
    /\ calls = <<>>
    /\ cycle_collection = <<>>
    /\ requests = <<>>

GenerateSuggestions ==
    /\ op = "none"
    /\ \E predicted_symptoms \in PredictedLists : generate_suggestions_call(predicted_symptoms)
    /\ UNCHANGED calls

NextSuggestions == GenerateSuggestions

SpecSuggestions == InitSuggestions /\ [][NextSuggestions]_vars

(************ predictions from a long history with moods logged ************)
MaxHistory == 10       \* entries of a history with moods

\* a history of n daily entries from day 1, a period starting on day 1, with
\* "sad" logged on the first a days, "calm" on the first b, "happy" on the first c
MoodHistory(n, a, b, c) ==
    [i \in 1..n |->
        Entry(i, i = 1,
              (IF i <= a THEN <<"sad">> ELSE <<>>)
              \o (IF i <= b THEN <<"calm">> ELSE <<>>)
              \o (IF i <= c THEN <<"happy">> ELSE <<>>))]

\* todays in the menstrual, follicular, ovulation and luteal days of the cycle
MoodTodays == {1, 8, 15, 20}

InitMood ==
    /\ \E n \in 9..MaxHistory : \E a \in 0..2, b \in 0..2, c \in 0..2 :
          entries = MoodHistory(n, a, b, c)
    /\ today \in MoodTodays
    /\ hashseed \in 0..(NumSeeds - 1)
    /\ Fresh

NextMood == GeneratePredictions

SpecMood == InitMood /\ [][NextMood]_vars

(******** statistics of a stored history, dates possibly repeated **********)
MaxStored == 5         \* entries of a stored history

\* four consecutive days
StoredDates == 0..3

\* the routes fetch a user's entries ordered by date; nothing stops two stored
\* entries of a user from carrying the same date (update_cycle_entry writes
\* any date, create_cycle_entry checks and inserts in two steps)
InitStored ==
    /\ \E n \in 0..MaxStored : \E ds \in [1..n -> StoredDates], ps \in [1..n -> BOOLEAN] :
          /\ \A i \in 1..(n - 1) : ds[i] <= ds[i + 1]
          /\ entries = [i \in 1..n |-> Entry(ds[i], ps[i], <<>>)]
    /\ today = 3
    /\ hashseed = 0
    /\ Fresh

NextStored == CalculateCycleStats

SpecStored == InitStored /\ [][NextStored]_vars

(************** the pattern analyzers on histories with symptoms ************)
MaxPatternEntries == 2 \* entries of a history handed to an analyzer

\* a period day, and the ovulation day of a 28-day cycle begun on it
PatternDates == {0, 14}
PatternMoods == {<<>>, <<"sad", "calm">>, <<"tired", "sad">>}
PatternSymptoms == {<<>>, <<"cramps", "bloating">>, <<"cramps">>}

PatternEntry(d, m, s) == [Entry(d, d = 0, m) EXCEPT !.physical_symptoms = s]

InitPatterns ==
    /\ \E n \in 0..MaxPatternEntries :
          \E ds \in [1..n -> PatternDates], ms \in [1..n -> PatternMoods],
             ss \in [1..n -> PatternSymptoms] :
             entries = [i \in 1..n |-> PatternEntry(ds[i], ms[i], ss[i])]
    /\ today = 14
    /\ hashseed \in 0..(NumSeeds - 1)
    /\ Fresh

AnalyzeMoodPatterns == op = "none" /\ analyze_mood_patterns_call /\ UNCHANGED calls

AnalyzeSymptomPatterns == op = "none" /\ analyze_symptom_patterns_call /\ UNCHANGED calls

NextPatterns == AnalyzeMoodPatterns \/ AnalyzeSymptomPatterns

SpecPatterns == InitPatterns /\ [][NextPatterns]_vars

(************** requests to the cycle routes, interleaved *******************)
MaxRequests == 3       \* requests made in one run

Users == {"u1", "u2"}
RouteDates == {0, 1}

\* a stored cycle entry
Document(id, user_id, entry) ==
    [_id |-> id, user_id |-> user_id, date |-> entry.date,
     is_period_day |-> entry.is_period_day]

\* the body of a POST or PUT
CycleEntryCreate == [date : RouteDates, is_period_day : BOOLEAN]

\* a request: its route, its user, the entry_id of its path (0 if none), its
\* body, where it stands and the status it returned (0 while it runs)
Request(route, user, entry_id, entry, pc, status_code) ==
    [route |-> route, user |-> user, entry_id |-> entry_id, entry |-> entry,
     pc |-> pc, status_code |-> status_code]

\* find_one({"user_id": ..., "date": ...})
find_one_by_date(user_id, date) ==
    {i \in 1..Len(cycle_collection) :
        cycle_collection[i].user_id = user_id /\ cycle_collection[i].date = date}

\* find_one({"_id": ..., "user_id": ...})
find_one_by_id(id, user_id) ==
    {i \in 1..Len(cycle_collection) :
        cycle_collection[i]._id = id /\ cycle_collection[i].user_id = user_id}

EngineIdle == UNCHANGED <<entries, symptom_log, today_symptoms, today, hashseed,
                          suggestion_database, op, arg, result, calls>>

\* POST /cycle/entries up to its first await: the entry of the date is looked
\* for; found, the request ends with 400
create_cycle_entry_find_one ==
    /\ Len(requests) < MaxRequests
    /\ \E user \in Users, entry \in CycleEntryCreate :
          requests' = Append(requests,
              IF find_one_by_date(user, entry.date) # {}
              THEN Request("create_cycle_entry", user, 0, entry, "done", 400)
              ELSE Request("create_cycle_entry", user, 0, entry, "insert_one", 0))
    /\ UNCHANGED cycle_collection
    /\ EngineIdle

\* the rest of it: the entry is inserted under a new _id and returned
create_cycle_entry_insert_one ==
    /\ \E r \in 1..Len(requests) :
          /\ requests[r].route = "create_cycle_entry"
          /\ requests[r].pc = "insert_one"
          /\ cycle_collection' = Append(cycle_collection,
                 Document(Len(cycle_collection) + 1, requests[r].user, requests[r].entry))
          /\ requests' = [requests EXCEPT ![r].pc = "done", ![r].status_code = 200]
    /\ EngineIdle

\* PUT /cycle/entries/{entry_id} up to its first await: the entry of the id
\* and the user is looked for; not found, the request ends with 404
update_cycle_entry_find_one ==
    /\ Len(requests) < MaxRequests
    /\ \E user \in Users, entry_id \in 1..MaxRequests, entry \in CycleEntryCreate :
          requests' = Append(requests,
              IF find_one_by_id(entry_id, user) = {}
              THEN Request("update_cycle_entry", user, entry_id, entry, "done", 404)
              ELSE Request("update_cycle_entry", user, entry_id, entry, "update_one", 0))
    /\ UNCHANGED cycle_collection
    /\ EngineIdle

\* the rest of it: update_one({"_id": ...}, {"$set": entry_dict}), and the
\* entry returned
update_cycle_entry_update_one ==
    /\ \E r \in 1..Len(requests) :
          /\ requests[r].route = "update_cycle_entry"
          /\ requests[r].pc = "update_one"
          /\ cycle_collection' =
                 [i \in 1..Len(cycle_collection) |->
                     IF cycle_collection[i]._id = requests[r].entry_id
                     THEN Document(cycle_collection[i]._id, cycle_collection[i].user_id,
                                   requests[r].entry)
                     ELSE cycle_collection[i]]
          /\ requests' = [requests EXCEPT ![r].pc = "done", ![r].status_code = 200]
    /\ EngineIdle

\* find({"user_id": ..., "date": {"$gte": since_date}}).sort("date", 1)
entries_list(user_id) ==
    LET OfUser(doc) == doc.user_id = user_id /\ doc.date >= today - 365
        found == SelectSeq(cycle_collection, OfUser)
    IN sort_by_date([i \in 1..Len(found) |->
                        Entry(found[i].date, found[i].is_period_day, <<>>)])

\* GET /cycle/stats: the user's entries are handed to the calculator
get_cycle_stats ==
    /\ \E user \in Users :
          /\ cycle_collection # <<>>
          /\ entries' = entries_list(user)
          /\ op' = "get_cycle_stats"
          /\ arg' = <<user>>
          /\ result' = calculate_cycle_stats(entries_list(user), today)
    /\ UNCHANGED <<cycle_collection, requests, symptom_log, today_symptoms, today,
                   hashseed, suggestion_database, calls>>

InitRoutes ==
    /\ entries = <<>>
    /\ today = 1
    /\ hashseed = 0
    /\ Fresh

NextRoutes ==
    \/ create_cycle_entry_find_one
    \/ create_cycle_entry_insert_one
    \/ update_cycle_entry_find_one
    \/ update_cycle_entry_update_one
    \/ get_cycle_stats

SpecRoutes == InitRoutes /\ [][NextRoutes]_vars

(****************************** claims **************************************)
\* the entries in the order the engine walks them
DateSorted == sort_by_date(entries)

\* the places of DateSorted where a maximal run of period days begins
RunStarts ==
    LET s == DateSorted
    IN {i \in 1..Len(s) : s[i].is_period_day /\ (i = 1 \/ ~s[i - 1].is_period_day)}

\* the dates at those places, in the order of the places
RunStartDates ==
    LET s == DateSorted
        a == Ascending(RunStarts)
    IN [k \in 1..Len(a) |-> s[a[k]].date]

\* the gaps between consecutive run starts that lie in 21..35
ValidGapPlaces ==
    LET d == RunStartDates
    IN {k \in 2..Len(d) : (d[k] - d[k - 1]) \in 21..35}

RECURSIVE SumOver(_, _)
SumOver(S, f) == IF S = {} THEN 0 ELSE LET x == CHOOSE y \in S : TRUE IN f[x] + SumOver(S \ {x}, f)

ValidGapSum ==
    LET d == RunStartDates
        gaps == ValidGapPlaces
    IN SumOver(gaps, [k \in gaps |-> d[k] - d[k - 1]])

\* the phase rule of the spec, first match first, on exact fractions
PhaseRule(d, L) ==
    CASE d <= 5 -> "menstrual"
      [] d > 5 /\ (d + 14) * L.den <= L.num -> "follicular"
      [] d > 5 /\ (d + 14) * L.den > L.num /\ (d + 14 - 2) * L.den <= L.num -> "ovulation"
      [] OTHER -> "luteal"

\* C1: with fewer than 2 period starts calculate_cycle_stats returns only
\* total_cycles_tracked (0 or 1) and, for one start, last_period_start, every
\* other field null; with no entries generate_predictions returns the empty list.
C1_SparseInput ==
    /\ (op = "calculate_cycle_stats" /\ Cardinality(RunStarts) < 2) =>
          /\ result.total_cycles_tracked = Cardinality(RunStarts)
          /\ result.last_period_start =
                (IF Cardinality(RunStarts) = 1 THEN Some(RunStartDates[1]) ELSE None)
          /\ result.average_cycle_length = None
          /\ result.average_period_length = None
          /\ result.next_predicted_period = None
          /\ result.next_predicted_ovulation = None
          /\ result.current_cycle_day = None
          /\ result.current_phase = None
    /\ (op = "generate_predictions" /\ entries = <<>>) => result = <<>>

C1_Witness ==
    /\ op = "calculate_cycle_stats"
    /\ Cardinality(RunStarts) = 1
    /\ Len(entries) >= 3
    /\ result.last_period_start = Some(21)

\* C2: the detected period starts are the dates of the first entry of each
\* maximal run of period days of the date-sorted entries, one per run, ascending.
C2_PeriodStartsAreRunStarts ==
    op = "_get_period_starts" =>
        /\ Len(result) = Cardinality(RunStarts)
        /\ result = RunStartDates
        /\ \A i \in 1..Len(result) : \A j \in 1..Len(result) :
              i < j => result[i] <= result[j]

C2_Witness ==
    /\ op = "_get_period_starts"
    /\ Len(result) = 2
    /\ entries # DateSorted
    /\ \E i \in 1..(Len(DateSorted) - 1) :
          DateSorted[i].is_period_day /\ DateSorted[i + 1].is_period_day

\* C3: with at least two period starts average_cycle_length is the mean of the
\* gaps in [21, 35] between consecutive starts, 28 when there is none, and
\* total_cycles_tracked counts every start, also one after an excluded gap.
C3_AverageOfValidGaps ==
    (op = "calculate_cycle_stats" /\ Cardinality(RunStarts) >= 2) =>
        /\ result.total_cycles_tracked = Cardinality(RunStarts)
        /\ result.average_cycle_length # None
        /\ LET avg == result.average_cycle_length[1]
           IN IF ValidGapPlaces = {}
              THEN avg.num = 28 /\ avg.den = 1
              ELSE avg.num * Cardinality(ValidGapPlaces) = ValidGapSum * avg.den

C3_Witness ==
    /\ op = "calculate_cycle_stats"
    /\ Cardinality(RunStarts) = 3
    /\ Cardinality(ValidGapPlaces) = 1
    /\ \E k \in 2..3 : RunStartDates[k] - RunStartDates[k - 1] > 35
    /\ result.total_cycles_tracked = 3
    /\ result.average_cycle_length = Some(Rat(21, 1))

\* C4 as stated: whenever at least one period start exists the forecasts are
\* non-null, next_predicted_period = last start + average_cycle_length days and
\* next_predicted_ovulation = last start + (average_cycle_length - 14) days.
C4_Original ==
    (op = "calculate_cycle_stats" /\ Cardinality(RunStarts) >= 1) =>
        /\ result.next_predicted_period # None
        /\ result.next_predicted_ovulation # None
        /\ result.average_cycle_length # None
        /\ LET avg == result.average_cycle_length[1]
               last == RunStartDates[Len(RunStartDates)]
           IN /\ (result.next_predicted_period[1] - last) * avg.den = avg.num
              /\ (result.next_predicted_ovulation[1] - last + 14) * avg.den = avg.num

\* C4 amended: with at least two period starts the forecasts are non-null,
\* next_predicted_period = last start + the whole days of average_cycle_length
\* and next_predicted_ovulation = last start + the whole days of
\* (average_cycle_length - 14); with exactly one start both forecasts are null.
C4_ForecastWholeDays ==
    /\ (op = "calculate_cycle_stats" /\ Cardinality(RunStarts) >= 2) =>
          /\ result.next_predicted_period # None
          /\ result.next_predicted_ovulation # None
          /\ LET avg == result.average_cycle_length[1]
                 last == RunStartDates[Len(RunStartDates)]
                 p == result.next_predicted_period[1] - last
                 o == result.next_predicted_ovulation[1] - last
             IN /\ result.last_period_start = Some(last)
                /\ p * avg.den <= avg.num /\ avg.num < (p + 1) * avg.den
                /\ (o + 14) * avg.den <= avg.num /\ avg.num < (o + 15) * avg.den
    /\ (op = "calculate_cycle_stats" /\ Cardinality(RunStarts) = 1) =>
          /\ result.next_predicted_period = None
          /\ result.next_predicted_ovulation = None

\* starts on days 29 and 57 (28 apart, as 2024-01-01 and 2024-01-29): average 28,
\* last start 57, next period 85
C4_Witness ==
    /\ op = "calculate_cycle_stats"
    /\ RunStartDates = <<29, 57>>
    /\ result.average_cycle_length = Some(Rat(28, 1))
    /\ result.last_period_start = Some(57)
    /\ result.next_predicted_period = Some(85)
    /\ result.next_predicted_ovulation = Some(71)

\* C5: with at least two period starts current_cycle_day = (today - last start)
\* + 1, unwrapped (0 or negative when the last start is after today, above the
\* average when overdue), and current_phase is the phase rule on that value.
C5_CurrentCycleDayUnwrapped ==
    (op = "calculate_cycle_stats" /\ Cardinality(RunStarts) >= 2) =>
        LET last == RunStartDates[Len(RunStartDates)]
            avg == result.average_cycle_length[1]
        IN /\ result.current_cycle_day = Some(today - last + 1)
           /\ result.current_phase = Some(PhaseRule(today - last + 1, avg))
           /\ (last > today => result.current_cycle_day[1] <= 0)
           /\ ((today - last) * avg.den >= avg.num =>
                  result.current_cycle_day[1] * avg.den > avg.num)

C5_Witness ==
    /\ op = "calculate_cycle_stats"
    /\ Cardinality(RunStarts) >= 2
    /\ result.current_cycle_day[1] < 0
    /\ result.current_phase = Some("menstrual")

C5_WitnessOverdue ==
    /\ op = "calculate_cycle_stats"
    /\ Cardinality(RunStarts) >= 2
    /\ result.current_cycle_day[1] * result.average_cycle_length[1].den
          > result.average_cycle_length[1].num
    /\ result.current_phase = Some("luteal")

\* the cycle length generate_predictions works with
PredictionCycleLength ==
    LET gaps == ValidGapPlaces
    IN IF Cardinality(RunStarts) >= 2 /\ gaps # {}
       THEN Rat(ValidGapSum, Cardinality(gaps))
       ELSE Rat(28, 1)

\* the largest integer <= a positive fraction
WholeDays(r) == CHOOSE k \in 0..r.num : k * r.den <= r.num /\ r.num < (k + 1) * r.den

\* C6 as stated: cycle_day = ((date - last_period_start) mod cycle_length) + 1
\* with cycle_length the (possibly fractional) cycle length.
C6_Original ==
    (op = "generate_predictions" /\ RunStarts # {}) =>
        /\ Len(result) = arg[1]
        /\ \A i \in 1..Len(result) :
              LET L == PredictionCycleLength
                  last == RunStartDates[Len(RunStartDates)]
              IN /\ result[i].date = today + (i - 1)
                 /\ (result[i].cycle_day - 1) * L.den
                       = ((result[i].date - last) * L.den) % L.num

\* C6 amended: with a last period start generate_predictions returns exactly
\* days_ahead predictions, the i-th dated today + i, with cycle_day =
\* ((date - last_period_start) mod M) + 1 where M is the whole days of the cycle
\* length; cycle_day lies in 1..M and consecutive predictions advance it by one,
\* wrapping from M to 1.
C6_WrappedCycleDay ==
    (op = "generate_predictions" /\ RunStarts # {}) =>
        LET M == WholeDays(PredictionCycleLength)
            last == RunStartDates[Len(RunStartDates)]
        IN /\ Len(result) = arg[1]
           /\ \A i \in 1..Len(result) :
                 /\ result[i].date = today + (i - 1)
                 /\ result[i].cycle_day \in 1..M
                 /\ \E q \in -10..10 :
                       result[i].date - last = q * M + (result[i].cycle_day - 1)
           /\ \A i \in 1..(Len(result) - 1) :
                 result[i + 1].cycle_day =
                    (IF result[i].cycle_day = M THEN 1 ELSE result[i].cycle_day + 1)

C6_Witness ==
    /\ op = "generate_predictions"
    /\ PredictionCycleLength.den = 2
    /\ Len(result) = 3
    /\ RunStartDates[Len(RunStartDates)] > today
    /\ \E i \in 1..2 : result[i].cycle_day > 1 /\ result[i + 1].cycle_day = 1

\* C7 as stated: PhaseClassifier(14, 28) = ovulation, (1, 28) = menstrual,
\* (10, 28) = follicular, (20, 28) = luteal.
C7_Examples ==
    (op = "_get_current_phase" /\ arg[2] = Rat(28, 1)) =>
        /\ (arg[1] = 14 => result = "ovulation")
        /\ (arg[1] = 1 => result = "menstrual")
        /\ (arg[1] = 10 => result = "follicular")
        /\ (arg[1] = 20 => result = "luteal")

\* C8: PhaseClassifier is total: for every cycle_day (0 and negative included)
\* and every cycle_length it returns one of the four phases, the one the first
\* matching rule names.
C8_PhaseRuleOrder ==
    op = "_get_current_phase" =>
        /\ result \in {"menstrual", "follicular", "ovulation", "luteal"}
        /\ result = PhaseRule(arg[1], arg[2])

\* both the follicular rule and the ovulation window match; the first wins
C8_Witness ==
    /\ op = "_get_current_phase"
    /\ arg[1] = 13
    /\ arg[2] = Rat(85, 3)
    /\ Abs(arg[1] * 3 - (85 - 14 * 3)) <= 2 * 3
    /\ result = "follicular"
\* a suggestion list holds a preventive copy of a catalog entry
HasPreventive(suggestions) ==
    \E i \in 1..Len(suggestions) : suggestions[i].category = "preventive"

C10_InputsAndCatalogUntouched ==
    calls # <<>> =>
        LET last == calls[Len(calls)]
        IN /\ entries = last.passed.entries
           /\ symptom_log = last.passed.symptom_log
           /\ today_symptoms = last.passed.today_symptoms
           /\ suggestion_database = _load_suggestion_database
           /\ \A k \in 1..(Len(calls) - 1) : calls[k + 1].passed = calls[k].passed

\* an unsorted history with moods went through generate_predictions, an
\* unsorted log through predict_tomorrow_symptoms, and catalog entries were
\* converted to preventive ones
C10_Witness ==
    /\ Len(calls) = 3
    /\ calls[1].op = "generate_predictions"
    /\ calls[2].op = "predict_tomorrow_symptoms"
    /\ calls[3].op = "generate_suggestions"
    /\ entries # sort_by_date(entries)
    /\ \E i \in 1..Len(entries) : entries[i].moods # <<>>
    /\ symptom_log # sort_by_date(symptom_log)
    /\ calls[1].result # <<>>
    /\ calls[2].result.predicted_symptoms # <<>>
    /\ HasPreventive(calls[3].result.suggestions)
\* the probabilities of the symptoms returned, as a list
ReturnedProbabilities ==
    [i \in 1..Len(result.predicted_symptoms) |-> result.predicted_symptoms[i].probability]

\* min(count(recent)/7, 1.0) for the log passed
DataShare == IF Len(symptom_log) < 7 THEN Rat(Len(symptom_log), 7) ELSE Rat(1, 1)

\* C11: when a symptom is predicted, confidence_score is the average of
\* min(count(recent)/7, 1) and the mean probability of the merged predictions;
\* when none is predicted it is 0; an empty log gives score 0, no predictions
\* and based_on_days 0; the score always lies in [0, 1].
C11_ConfidenceScore ==
    op = "predict_tomorrow_symptoms" =>
        LET score == result.confidence_score
            both == RatAdd(DataShare, rat_mean(ReturnedProbabilities))
        IN /\ result.predicted_symptoms # <<>> => score = Rat(both.num, both.den * 2)
           /\ result.predicted_symptoms = <<>> => score = Rat(0, 1)
           /\ symptom_log = <<>> =>
                  /\ result.predicted_symptoms = <<>>
                  /\ result.based_on_days = 0
           /\ 0 <= score.num /\ score.num <= score.den

\* a five-day log with two symptoms predicted
C11_Witness ==
    /\ op = "predict_tomorrow_symptoms"
    /\ Len(symptom_log) = 5
    /\ Len(result.predicted_symptoms) = 2
    /\ result.confidence_score.den # 1

\* a log of one day, nothing predicted
C11_WitnessNothingPredicted ==
    /\ op = "predict_tomorrow_symptoms"
    /\ Len(symptom_log) = 1
    /\ result.predicted_symptoms = <<>>
    /\ result.based_on_days = 1
\* a list moved round by k places
Rotated(s, k) == [i \in 1..Len(s) |-> s[((i + k - 1) % Len(s)) + 1]]

\* the log in other orders: every rotation, and every rotation reversed
Reorderings(log) ==
    IF log = <<>> THEN {log}
    ELSE UNION {{Rotated(log, k), Reverse(Rotated(log, k))} : k \in 0..(Len(log) - 1)}

\* the log with entries dated before its 7 most recent removed, replaced by
\* another day's record, or joined by a yet older one (in front or behind)
OlderVaried(log) ==
    LET byDate == sort_by_date(log)
        old == Len(log) - 7
        Kept(i) == SubSeq(byDate, 1, i - 1) \o SubSeq(byDate, i + 1, Len(byDate))
        first == byDate[1].date
    IN UNION { {Kept(i)} \cup {[byDate EXCEPT ![i] = DayRecord(kind, byDate[i].date)] : kind \in DayKinds}
               : i \in 1..old }
       \cup {<<DayRecord(kind, first - 1)>> \o log : kind \in DayKinds}
       \cup {Append(log, DayRecord(kind, first - 1)) : kind \in DayKinds}

\* C12: predict_tomorrow_symptoms reports based_on_days = min(entries, 7),
\* returns the same result for the log in any other order (dates distinct),
\* and for a log of at least 7 entries returns the same result when an entry
\* dated before the 7 most recent is added, removed or altered.
C12_SevenMostRecent ==
    op = "predict_tomorrow_symptoms" =>
        /\ result.based_on_days = (IF Len(symptom_log) < 7 THEN Len(symptom_log) ELSE 7)
        /\ \A other \in Reorderings(symptom_log) :
               predict_tomorrow_symptoms(other, arg[1]) = result
        /\ Len(symptom_log) >= 7 =>
               \A other \in OlderVaried(symptom_log) :
                   predict_tomorrow_symptoms(other, arg[1]) = result

\* eight days, newest first; the oldest is a tired day which, had it counted,
\* would have made fatigue frequent (5 of 8 rather than 4 of 7)
C12_Witness ==
    /\ op = "predict_tomorrow_symptoms"
    /\ Len(symptom_log) = 8
    /\ symptom_log[1].date > symptom_log[8].date
    /\ symptom_log[8].fatigue
    /\ Cardinality({i \in 1..8 : symptom_log[i].fatigue}) = 5
    /\ result.based_on_days = 7
    /\ result.predicted_symptoms # <<>>
\* the contributing factors a day's record can give, and the catalog key of each
Factors == {"headache", "cramps", "nausea", "fatigue", "mood", "sleep_quality"}
FactorKey(factor) == IF factor = "sleep_quality" THEN "sleep" ELSE factor

\* the condition of a factor is true on the record passed as current_symptoms
ConditionTrue(factor) ==
    /\ today_symptoms # None
    /\ LET r == today_symptoms[1]
       IN CASE factor = "headache" -> r.headache
            [] factor = "cramps" -> r.cramps \in {Some("moderate"), Some("strong")}
            [] factor = "nausea" -> r.nausea
            [] factor = "fatigue" -> r.fatigue
            [] factor = "mood" ->
                  r.mood \in {Some("sad"), Some("irritated"), Some("anxious"), Some("depressed")}
            [] factor = "sleep_quality" -> r.sleep_quality \in {Some("poor"), Some("fair")}

\* the predicted symptoms passed that call for prevention: probability above
\* 0.7 and a catalog key
PreventedSymptoms ==
    {arg[1][i].symptom : i \in {j \in 1..Len(arg[1]) :
         /\ 10 * arg[1][j].probability.num > 7 * arg[1][j].probability.den
         /\ arg[1][j].symptom \in CatalogKeys}}

LifestyleEntries(key) ==
    {CatalogEntries(key)[i] : i \in {j \in 1..Len(CatalogEntries(key)) :
                                        CatalogEntries(key)[j].category = "lifestyle"}}

PairsOf(list) == {<<list[i].title, list[i].category>> : i \in 1..Len(list)}

\* the (title, category) pairs of every candidate of the call
EligiblePairs ==
    UNION {PairsOf(CatalogEntries(FactorKey(f))) : f \in {g \in Factors : ConditionTrue(g)}}
    \cup UNION {{<<"Prevent: " \o e.title, "preventive">> : e \in LifestyleEntries(key)}
                : key \in PreventedSymptoms}
    \cup {<<"Stay Hydrated", "lifestyle">>, <<"Balanced Nutrition", "lifestyle">>}

PriorityRank(priority) ==
    CASE priority = "high" -> 0 [] priority = "medium" -> 1 [] priority = "low" -> 2 [] OTHER -> 3

\* C13: generate_suggestions returns at most 10 suggestions, no two with the
\* same (title, category), in order of priority rank (high, medium, low), and
\* exactly 10 whenever more than 10 distinct candidates are eligible.
C13_TenByPriority ==
    op = "generate_suggestions" =>
        LET out == result.suggestions
        IN /\ Len(out) <= 10
           /\ \A i, j \in 1..Len(out) :
                  i < j => /\ <<out[i].title, out[i].category>> # <<out[j].title, out[j].category>>
                           /\ PriorityRank(out[i].priority) <= PriorityRank(out[j].priority)
           /\ Cardinality(EligiblePairs) > 10 => Len(out) = 10

\* more than 10 candidates, a symptom predicted twice among them, 10 returned
\* with all three priorities
C13_Witness ==
    /\ op = "generate_suggestions"
    /\ Cardinality(EligiblePairs) > 10
    /\ Len(arg[1]) = 2 /\ arg[1][1].symptom = arg[1][2].symptom
    /\ Len(result.suggestions) = 10
    /\ {result.suggestions[i].priority : i \in 1..10} = {"high", "medium", "low"}
\* the two general wellness suggestions
Hydration ==
    Suggestion("lifestyle", "Stay Hydrated",
        "Drink at least 8 glasses of water throughout the day.", "low")
BalancedNutrition ==
    Suggestion("lifestyle", "Balanced Nutrition",
        "Include fruits, vegetables, and whole grains in your meals.", "low")

\* C14 as claimed: whatever the current and predicted symptoms, the list
\* returned holds both general wellness suggestions, each with priority low.
C14_Original ==
    op = "generate_suggestions" =>
        {Hydration, BalancedNutrition} \subseteq Range(result.suggestions)

\* C14 as amended: both general wellness suggestions, priority low, are in the
\* list returned whenever the call has at most 10 distinct (title, category)
\* candidates; one is left out only from a list of 10 in which no entry
\* ranks after low.
C14_WellnessUnlessCrowdedOut ==
    op = "generate_suggestions" =>
        LET out == result.suggestions
        IN /\ Cardinality(EligiblePairs) <= 10 => {Hydration, BalancedNutrition} \subseteq Range(out)
           /\ ~({Hydration, BalancedNutrition} \subseteq Range(out)) =>
                  /\ Len(out) = 10
                  /\ \A i \in 1..10 : PriorityRank(out[i].priority) <= 2
           /\ \A i \in 1..Len(out) :
                  <<out[i].title, out[i].category>> \in PairsOf(<<Hydration, BalancedNutrition>>)
                      => out[i] \in {Hydration, BalancedNutrition}

\* current symptoms and a prevention both contribute, and both wellness
\* suggestions are returned after them
C14_Witness ==
    /\ op = "generate_suggestions"
    /\ \E f \in Factors : ConditionTrue(f)
    /\ PreventedSymptoms # {}
    /\ Cardinality(EligiblePairs) \in 8..10
    /\ {Hydration, BalancedNutrition} \subseteq Range(result.suggestions)
\* every entry of the catalog
AllCatalogEntries == UNION {Range(CatalogEntries(key)) : key \in CatalogKeys}

\* the catalog entries of the conditions true on the current symptoms
EntriesOfTrueConditions ==
    UNION {Range(CatalogEntries(FactorKey(f))) : f \in {g \in Factors : ConditionTrue(g)}}

\* C15: a condition's factor is in based_on_symptoms exactly when the condition
\* is true on current_symptoms (never when they are absent), each factor once;
\* catalog entries returned are entries of true conditions only, and all of
\* them are returned when no more than 10 candidates compete.
C15_ConditionsAndFactors ==
    op = "generate_suggestions" =>
        LET out == result.suggestions
            based == result.based_on_symptoms
        IN /\ \A f \in Factors : ConditionTrue(f) <=> f \in Range(based)
           /\ \A i, j \in 1..Len(based) : i < j => based[i] # based[j]
           /\ today_symptoms = None => Range(based) \cap Factors = {}
           /\ Range(out) \cap AllCatalogEntries \subseteq EntriesOfTrueConditions
           /\ Cardinality(EligiblePairs) <= 10 =>
                  Range(out) \cap AllCatalogEntries = EntriesOfTrueConditions

\* headache and an irritated mood count; mild cramps and good sleep do not
C15_Witness ==
    /\ op = "generate_suggestions"
    /\ today_symptoms # None
    /\ today_symptoms[1].cramps = Some("mild")
    /\ today_symptoms[1].sleep_quality = Some("good")
    /\ Range(result.based_on_symptoms) = {"headache", "mood"}
    /\ Cardinality(EligiblePairs) <= 10
    /\ Cardinality(Range(result.suggestions) \cap AllCatalogEntries) = 7

\* mild cramps, a happy mood and good sleep: nothing counts
C15_WitnessNoCondition ==
    /\ op = "generate_suggestions"
    /\ today_symptoms # None
    /\ today_symptoms[1].cramps = Some("mild")
    /\ today_symptoms[1].mood = Some("happy")
    /\ today_symptoms[1].sleep_quality = Some("good")
    /\ arg[1] = <<>>
    /\ result.based_on_symptoms = <<>>
    /\ Range(result.suggestions) = {Hydration, BalancedNutrition}
\* title, category and priority of the preventive suggestions due: one for
\* each lifestyle entry of each symptom that calls for prevention
PreventiveDue ==
    UNION {{<<"Prevent: " \o e.title, "preventive", "low">> : e \in LifestyleEntries(key)}
           : key \in PreventedSymptoms}

\* C16: a predicted symptom with probability > 0.7 that is a catalog key adds
\* one candidate for each of its lifestyle entries (none for remedy or medical
\* entries), titled "Prevent: " + title, category preventive, priority low, and
\* the factor predicted_<symptom>; any other predicted symptom adds neither.
C16_PreventiveSuggestions ==
    op = "generate_suggestions" =>
        LET out == result.suggestions
            based == result.based_on_symptoms
            returned == {<<out[i].title, out[i].category, out[i].priority>> :
                            i \in {j \in 1..Len(out) : out[j].category = "preventive"}}
        IN /\ Range(based) \ Factors = {"predicted_" \o key : key \in PreventedSymptoms}
           /\ returned \subseteq PreventiveDue
           /\ Cardinality(EligiblePairs) <= 10 => returned = PreventiveDue

\* headache, nausea and cramps are prevented, fatigue at 0.6 is not; the
\* remedies of headache have no preventive counterpart
C16_Witness ==
    /\ op = "generate_suggestions"
    /\ today_symptoms = None
    /\ Len(arg[1]) = 4
    /\ PreventedSymptoms = {"headache", "nausea", "cramps"}
    /\ Cardinality(EligiblePairs) <= 10
    /\ \E i \in 1..Len(result.suggestions) :
          result.suggestions[i].title = "Prevent: Rest in Dark Room"
    /\ \A i \in 1..Len(result.suggestions) :
          result.suggestions[i].title # "Prevent: Stay Hydrated"
    /\ "predicted_fatigue" \notin Range(result.based_on_symptoms)

\* a symptom outside the catalog at 0.8 and headache at 0.5 add nothing
C16_WitnessNotPrevented ==
    /\ op = "generate_suggestions"
    /\ today_symptoms = None
    /\ \E i \in 1..Len(arg[1]) : arg[1][i].symptom = "mood_changes"
    /\ result.based_on_symptoms = <<>>
    /\ Range(result.suggestions) = {Hydration, BalancedNutrition}
\* the row of the phase in the phase -> mood table
PhaseRow(phase) ==
    CASE phase = "menstrual" -> {"tired", "emotional", "irritable"}
      [] phase = "follicular" -> {"energetic", "happy", "calm"}
      [] phase = "ovulation" -> {"happy", "energetic", "confident"}
      [] phase = "luteal" -> {"anxious", "irritable", "sad"}

\* how often a mood is logged across all entries
Occurrences(mood) ==
    SumOver(1..Len(entries),
            [i \in 1..Len(entries) |->
                Cardinality({j \in 1..Len(entries[i].moods) : entries[i].moods[j] = mood})])

\* C17: every prediction's predicted_mood has at most 3 entries, no entry
\* twice, and each entry is in the table row of the prediction's phase or is
\* a mood logged in more than 10% of the entries (count > entries / 10).
C17_PredictedMood ==
    op = "generate_predictions" =>
        \A k \in 1..Len(result) :
            LET moods == result[k].predicted_mood
            IN /\ Len(moods) <= 3
               /\ \A i, j \in 1..Len(moods) : i < j => moods[i] # moods[j]
               /\ \A i \in 1..Len(moods) :
                      \/ moods[i] \in PhaseRow(result[k].phase)
                      \/ 10 * Occurrences(moods[i]) > Len(entries)

\* ten entries; "sad" logged once (not above 10%) and left out, "calm" logged
\* twice and predicted in a menstrual phase
C17_Witness ==
    /\ op = "generate_predictions"
    /\ Len(entries) = 10
    /\ Occurrences("sad") = 1
    /\ Occurrences("calm") = 2
    /\ result # <<>>
    /\ result[1].phase = "menstrual"
    /\ "calm" \in Range(result[1].predicted_mood)
    /\ "sad" \notin Range(result[1].predicted_mood)
    /\ Len(result[1].predicted_mood) = 3
\* |cycle_day - (L - 14)| in units of 1/den of the cycle length L
OvulationDistance(cycle_day, L) == Abs(cycle_day * L.den - (L.num - 14 * L.den))

\* the status the rule gives at a distance, in the same units
StatusAt(dist, unit) ==
    IF dist <= unit THEN "high" ELSE IF dist <= 3 * unit THEN "medium" ELSE "low"

\* C18: each prediction's fertility_status follows from its own cycle_day and
\* the cycle length: high iff |cycle_day - (cycle_length - 14)| <= 1, medium
\* iff that distance is > 1 and <= 3, low otherwise.
C18_FertilityStatus ==
    op = "generate_predictions" =>
        LET L == PredictionCycleLength
        IN \A k \in 1..Len(result) :
              result[k].fertility_status =
                  StatusAt(OvulationDistance(result[k].cycle_day, L), L.den)

\* a cycle of 21.5 days (ovulation day 7.5): day 6 at distance 1.5 is medium,
\* day 7 at distance 0.5 is high
C18_Witness ==
    /\ op = "generate_predictions"
    /\ PredictionCycleLength = Rat(43, 2)
    /\ Len(result) >= 2
    /\ result[1].cycle_day = 6 /\ result[1].fertility_status = "medium"
    /\ result[2].cycle_day = 7 /\ result[2].fertility_status = "high"
\* some entry of the date is a period day
PeriodDayLogged(d) ==
    \E i \in 1..Len(entries) : entries[i].date = d /\ entries[i].is_period_day

\* the number of consecutive dates from a start with a period day logged
ConsecutivePeriodDays(start) ==
    CHOOSE k \in 0..Len(entries) :
        /\ \A j \in 0..(k - 1) : PeriodDayLogged(start + j)
        /\ (k = Len(entries) \/ ~PeriodDayLogged(start + k))

\* no two entries of the same date
OneEntryPerDate ==
    \A i, j \in 1..Len(entries) : i # j => entries[i].date # entries[j].date

\* the mean over all period starts of the consecutive period days from each
MeanConsecutivePeriodDays ==
    Rat(SumOver(1..Len(RunStartDates),
                [k \in 1..Len(RunStartDates) |-> ConsecutivePeriodDays(RunStartDates[k])]),
        Len(RunStartDates))

\* no date carries both a period-day entry and an entry that is not one, so
\* that "the first date without a period-day entry" and "the first entry that
\* is not a period day" stop the count at the same place
DatesOfOneKind ==
    \A i, j \in 1..Len(entries) :
        entries[i].date = entries[j].date => entries[i].is_period_day = entries[j].is_period_day

\* C19: the period length of a start is the number of consecutive calendar
\* dates from the start that each have a period-day entry (the count stops at
\* the first date without one), and average_period_length is the mean of
\* these counts over all period starts.
C19_PeriodLength ==
    (op = "calculate_cycle_stats" /\ Cardinality(RunStarts) >= 2 /\ DatesOfOneKind) =>
        result.average_period_length = Some(MeanConsecutivePeriodDays)

\* the same for histories with one entry per date
C19_OneEntryPerDate ==
    (op = "calculate_cycle_stats" /\ Cardinality(RunStarts) >= 2 /\ OneEntryPerDate) =>
        result.average_period_length = Some(MeanConsecutivePeriodDays)
FrequencySymptoms == {"headache", "nausea", "fatigue", "cramps"}

\* the record reports the symptom (cramps: set and not none)
Occurs(record, name) ==
    CASE name = "headache" -> record.headache
      [] name = "nausea" -> record.nausea
      [] name = "fatigue" -> record.fatigue
      [] name = "cramps" -> record.cramps \notin {None, Some("none")}

\* the places in the log of its seven latest records (all, if it has fewer)
WindowPlaces ==
    {i \in 1..Len(symptom_log) :
        Cardinality({j \in 1..Len(symptom_log) :
                        symptom_log[j].date > symptom_log[i].date}) < 7}

\* the share of the records at the places W that report the symptom
OccurrenceRate(name, W) ==
    Rat(Cardinality({i \in W : Occurs(symptom_log[i], name)}), Cardinality(W))

\* what the frequency heuristic contributed to the call that returned
FrequencyCandidates ==
    _predict_by_patterns(LastSeven(sorted(symptom_log).local), arg[1])

CandidatesFor(name, candidates) ==
    {k \in 1..Len(candidates) : candidates[k].symptom = name}

\* one candidate for the symptom, its probability the rate, high above 0.8
\* and medium otherwise
ContributedAtRate(name, rate, candidates) ==
    LET places == CandidatesFor(name, candidates)
    IN /\ Cardinality(places) = 1
       /\ \A k \in places :
             candidates[k] =
                 PredictedSymptom(name, rate, IF RatGt(rate, 8, 10) THEN "high" ELSE "medium")

\* nausea has no other source than the frequency heuristic: it is returned
\* exactly when contributed, with the probability contributed
NauseaReturned ==
    {i \in 1..Len(result.predicted_symptoms) : result.predicted_symptoms[i].symptom = "nausea"}

NauseaAsContributed(candidates) ==
    LET places == CandidatesFor("nausea", candidates)
        returned == NauseaReturned
    IN /\ (returned # {}) = (places # {})
       /\ \A i \in returned : \A k \in places :
             result.predicted_symptoms[i].probability = candidates[k].probability

\* C20 as stated: for every window of 1 to 7 records and each of headache,
\* nausea, fatigue and cramps-present, a rate above 0.6 contributes a
\* candidate with the rate as probability (high above 0.8, medium otherwise)
\* and a rate of 0.6 or less contributes nothing.
C20_Original ==
    (op = "predict_tomorrow_symptoms" /\ symptom_log # <<>>) =>
        LET W == WindowPlaces
            candidates == FrequencyCandidates
        IN /\ \A name \in FrequencySymptoms :
                 LET rate == OccurrenceRate(name, W)
                 IN IF RatGt(rate, 6, 10) THEN ContributedAtRate(name, rate, candidates)
                    ELSE CandidatesFor(name, candidates) = {}
           /\ NauseaAsContributed(candidates)

\* C20: for every window of 3 to 7 records and each of headache, nausea,
\* fatigue and cramps-present, a rate above 0.6 contributes a candidate with
\* the rate as probability (high above 0.8, medium otherwise) and a rate of
\* 0.6 or less contributes nothing; a window of fewer than 3 records
\* contributes nothing at all.
C20_FrequencyFromThreeRecords ==
    (op = "predict_tomorrow_symptoms" /\ symptom_log # <<>>) =>
        LET W == WindowPlaces
            candidates == FrequencyCandidates
        IN /\ \A name \in FrequencySymptoms :
                 LET rate == OccurrenceRate(name, W)
                 IN IF Cardinality(W) >= 3 /\ RatGt(rate, 6, 10)
                    THEN ContributedAtRate(name, rate, candidates)
                    ELSE CandidatesFor(name, candidates) = {}
           /\ NauseaAsContributed(candidates)

\* a window of seven records out of eight: one symptom contributed high, one
\* medium, and nausea returned at its rate
C20_Witness ==
    /\ op = "predict_tomorrow_symptoms"
    /\ Len(symptom_log) = 8
    /\ Cardinality(WindowPlaces) = 7
    /\ \E k \in 1..Len(FrequencyCandidates) : FrequencyCandidates[k].confidence = "high"
    /\ \E k \in 1..Len(FrequencyCandidates) : FrequencyCandidates[k].confidence = "medium"
    /\ NauseaReturned # {}

\* three records in five: a rate of exactly 0.6, nothing contributed
C20_WitnessAtThreshold ==
    /\ op = "predict_tomorrow_symptoms"
    /\ Len(symptom_log) = 5
    /\ OccurrenceRate("nausea", WindowPlaces) = Rat(6, 10)
    /\ CandidatesFor("nausea", FrequencyCandidates) = {}

\* two records, both with nausea: nothing contributed
C20_WitnessTwoRecords ==
    /\ op = "predict_tomorrow_symptoms"
    /\ Len(symptom_log) = 2
    /\ OccurrenceRate("nausea", WindowPlaces) = Rat(1, 1)
    /\ FrequencyCandidates = <<>>
    /\ NauseaReturned = {}
\* the places in the log, among its seven latest records, of the records with
\* a flow of light, medium or heavy
FlowPlaces ==
    {i \in WindowPlaces :
        symptom_log[i].flow_level \in {Some("light"), Some("medium"), Some("heavy")}}

\* the date of the latest of them
LatestFlowDate(places) ==
    symptom_log[CHOOSE i \in places :
                    \A j \in places : symptom_log[j].date <= symptom_log[i].date].date

\* what the cycle-phase heuristic contributed to the call that returned
PhaseCandidates ==
    _predict_by_cycle_phase(LastSeven(sorted(symptom_log).local), arg[1])

\* the symptoms and probabilities of a list of candidates
NamedProbabilities(candidates) ==
    {<<candidates[k].symptom, candidates[k].probability>> : k \in 1..Len(candidates)}

\* the contribution the rule gives for a cycle day
PhaseRuleContribution(cycle_day) ==
    IF cycle_day \in 1..5 THEN {<<"cramps", Rat(7, 10)>>, <<"fatigue", Rat(6, 10)>>}
    ELSE IF cycle_day \in 15..28 THEN {<<"mood_changes", Rat(6, 10)>>, <<"headache", Rat(5, 10)>>}
    ELSE {}

\* mood_changes has no other source than the cycle-phase heuristic
MoodChangesReturned ==
    {i \in 1..Len(result.predicted_symptoms) :
        result.predicted_symptoms[i].symptom = "mood_changes"}

\* C21: with cycle_day = target_date - (date of the latest record of the
\* window with flow light, medium or heavy) + 1, the cycle-phase heuristic
\* contributes cramps (0.7) and fatigue (0.6) iff cycle_day is in 1..5,
\* mood_changes (0.6) and headache (0.5) iff it is in 15..28, and nothing for
\* any other cycle_day or when no record of the window has such a flow.
C21_CyclePhaseHeuristic ==
    (op = "predict_tomorrow_symptoms" /\ symptom_log # <<>>) =>
        LET places == FlowPlaces
            candidates == PhaseCandidates
            expected == IF places = {} THEN {}
                        ELSE PhaseRuleContribution((arg[1] - LatestFlowDate(places)) + 1)
        IN /\ NamedProbabilities(candidates) = expected
           /\ Len(candidates) = Cardinality(expected)
           /\ (MoodChangesReturned # {}) = (<<"mood_changes", Rat(6, 10)>> \in expected)
           /\ \A i \in MoodChangesReturned :
                 result.predicted_symptoms[i].probability = Rat(6, 10)

\* the latest flow is not the only one, and puts the target on cycle day 5
C21_Witness ==
    /\ op = "predict_tomorrow_symptoms"
    /\ Cardinality(FlowPlaces) >= 2
    /\ (arg[1] - LatestFlowDate(FlowPlaces)) + 1 = 5
    /\ NamedProbabilities(PhaseCandidates) = {<<"cramps", Rat(7, 10)>>, <<"fatigue", Rat(6, 10)>>}

\* cycle day 28: mood_changes is returned
C21_WitnessLate ==
    /\ op = "predict_tomorrow_symptoms"
    /\ FlowPlaces # {}
    /\ (arg[1] - LatestFlowDate(FlowPlaces)) + 1 = 28
    /\ MoodChangesReturned # {}

\* cycle days 0, 6, 14 and 29, and a log with a flow only before the window:
\* nothing contributed
C21_WitnessNothing ==
    /\ op = "predict_tomorrow_symptoms"
    /\ PhaseCandidates = <<>>
    /\ \/ /\ FlowPlaces # {}
          /\ (arg[1] - LatestFlowDate(FlowPlaces)) + 1 \in {0, 6, 14, 29}
       \/ /\ FlowPlaces = {}
          /\ \E i \in 1..Len(symptom_log) : symptom_log[i].flow_level = Some("heavy")
\* what the sequence heuristic contributed to the call that returned
SequenceCandidates ==
    _predict_by_sequence(LastSeven(sorted(symptom_log).local), arg[1])

\* the record of the log with the latest date
LatestRecord ==
    symptom_log[CHOOSE i \in 1..Len(symptom_log) :
                    \A j \in 1..Len(symptom_log) : symptom_log[j].date <= symptom_log[i].date]

\* the contribution the rule gives for the record looked at
SequenceRuleContribution(yesterday) ==
    (IF yesterday.cramps = Some("strong") THEN {<<"cramps", Rat(6, 10)>>} ELSE {})
    \cup (IF yesterday.sleep_quality = Some("poor") THEN {<<"fatigue", Rat(8, 10)>>} ELSE {})

\* C22 as stated: for every window of 1 to 7 records the sequence heuristic
\* contributes cramps (0.6) when the chronologically last record has strong
\* cramps and fatigue (0.8) when it has poor sleep, whatever the other records
\* hold.
C22_Original ==
    (op = "predict_tomorrow_symptoms" /\ symptom_log # <<>>) =>
        LET candidates == SequenceCandidates
            expected == SequenceRuleContribution(LatestRecord)
        IN /\ NamedProbabilities(candidates) = expected
           /\ Len(candidates) = Cardinality(expected)

\* C22: for every window of 2 to 7 records the sequence heuristic contributes
\* cramps (0.6) when the chronologically last record has strong cramps and
\* fatigue (0.8) when it has poor sleep, whatever the other records hold; for
\* a window of one record it contributes nothing.
C22_SequenceFromTwoRecords ==
    (op = "predict_tomorrow_symptoms" /\ symptom_log # <<>>) =>
        LET candidates == SequenceCandidates
            expected == IF Len(symptom_log) >= 2
                        THEN SequenceRuleContribution(LatestRecord) ELSE {}
        IN /\ NamedProbabilities(candidates) = expected
           /\ Len(candidates) = Cardinality(expected)

\* the last record has poor sleep and no cramps, every other record of the log
\* strong cramps and good sleep: fatigue alone is contributed
C22_Witness ==
    /\ op = "predict_tomorrow_symptoms"
    /\ Len(symptom_log) = 8
    /\ LatestRecord.sleep_quality = Some("poor")
    /\ \A i \in 1..Len(symptom_log) :
          symptom_log[i] # LatestRecord => symptom_log[i].cramps = Some("strong")
    /\ NamedProbabilities(SequenceCandidates) = {<<"fatigue", Rat(8, 10)>>}

\* a single record with strong cramps: nothing contributed
C22_WitnessOneRecord ==
    /\ op = "predict_tomorrow_symptoms"
    /\ Len(symptom_log) = 1
    /\ LatestRecord.cramps = Some("strong")
    /\ SequenceCandidates = <<>>
\* every candidate of the three heuristics in the call that returned
AllCandidates == FrequencyCandidates \o PhaseCandidates \o SequenceCandidates

\* the sum of the probabilities of the candidates at a set of places
RECURSIVE ProbabilitySum(_, _)
ProbabilitySum(candidates, places) ==
    IF places = {} THEN Rat(0, 1)
    ELSE LET k == CHOOSE x \in places : TRUE
         IN RatAdd(candidates[k].probability, ProbabilitySum(candidates, places \ {k}))

\* the arithmetic mean of the probabilities of the candidates for a symptom
CandidateMean(name, candidates) ==
    LET places == CandidatesFor(name, candidates)
        total == ProbabilitySum(candidates, places)
    IN Rat(total.num, total.den * Cardinality(places))

\* > 0.7 high, > 0.4 medium, else low
Banding(p) ==
    IF p.num * 10 > 7 * p.den THEN "high"
    ELSE IF p.num * 10 > 4 * p.den THEN "medium" ELSE "low"

\* C23: predicted_symptoms holds each symptom name at most once, and exactly
\* the names that have a candidate; its probability is the arithmetic mean of
\* the probabilities of all candidates of the three heuristics for the name;
\* its confidence is the banding of that mean (> 0.7 high, > 0.4 medium, else
\* low); the list is in descending order of probability.
C23_Merge ==
    (op = "predict_tomorrow_symptoms" /\ symptom_log # <<>>) =>
        LET candidates == AllCandidates
            returned == result.predicted_symptoms
        IN /\ \A i, j \in 1..Len(returned) :
                 returned[i].symptom = returned[j].symptom => i = j
           /\ {returned[i].symptom : i \in 1..Len(returned)}
                 = {candidates[k].symptom : k \in 1..Len(candidates)}
           /\ \A i \in 1..Len(returned) :
                 LET average == CandidateMean(returned[i].symptom, candidates)
                 IN /\ returned[i].probability = average
                    /\ returned[i].confidence = Banding(average)
           /\ \A i \in 1..(Len(returned) - 1) :
                 ~RatLess(returned[i].probability, returned[i + 1].probability)

\* fatigue has a candidate from each heuristic, one of them labelled high, and
\* is returned as medium after another symptom of higher probability
C23_Witness ==
    /\ op = "predict_tomorrow_symptoms"
    /\ Cardinality(CandidatesFor("fatigue", AllCandidates)) = 3
    /\ \E k \in CandidatesFor("fatigue", AllCandidates) : AllCandidates[k].confidence = "high"
    /\ Len(result.predicted_symptoms) >= 2
    /\ result.predicted_symptoms[2].symptom = "fatigue"
    /\ result.predicted_symptoms[2].confidence = "medium"
    /\ RatLess(result.predicted_symptoms[2].probability, result.predicted_symptoms[1].probability)
PhaseNames == {"menstrual", "follicular", "ovulation", "luteal"}

\* every mood of every entry
MoodsLogged ==
    UNION {{entries[i].moods[j] : j \in 1..Len(entries[i].moods)} : i \in 1..Len(entries)}

\* every physical symptom of every entry
SymptomsLogged ==
    UNION {{entries[i].physical_symptoms[j] : j \in 1..Len(entries[i].physical_symptoms)} :
              i \in 1..Len(entries)}

\* the result has the four phase keys, under menstrual each of the strings
\* once, and nothing under the other three
AllUnderMenstrual(strings) ==
    /\ DOMAIN result = PhaseNames
    /\ {result.menstrual[k] : k \in 1..Len(result.menstrual)} = strings
    /\ Len(result.menstrual) = Cardinality(strings)
    /\ result.follicular = <<>>
    /\ result.ovulation = <<>>
    /\ result.luteal = <<>>

\* C24: analyze_mood_patterns and analyze_symptom_patterns return the four
\* keys menstrual, follicular, ovulation and luteal; the menstrual bucket is
\* the duplicate-free set of all moods (physical symptoms) of all entries,
\* whatever their phase, and the other three buckets are empty.
C24_AllUnderMenstrual ==
    /\ op = "analyze_mood_patterns" => AllUnderMenstrual(MoodsLogged)
    /\ op = "analyze_symptom_patterns" => AllUnderMenstrual(SymptomsLogged)

\* two entries with a mood in common, one of them on the ovulation day
C24_Witness ==
    /\ op = "analyze_mood_patterns"
    /\ Len(entries) = 2
    /\ entries[1].date = 0 /\ entries[2].date = 14
    /\ entries[1].moods = <<"sad", "calm">> /\ entries[2].moods = <<"tired", "sad">>
    /\ Len(result.menstrual) = 3

\* the same for physical symptoms
C24_WitnessSymptoms ==
    /\ op = "analyze_symptom_patterns"
    /\ Len(entries) = 2
    /\ entries[2].date = 14
    /\ entries[1].physical_symptoms = <<"cramps">>
    /\ entries[2].physical_symptoms = <<"cramps", "bloating">>
    /\ Len(result.menstrual) = 2
\* the candidates of the call, by origin
CurrentCandidates ==
    UNION {{CatalogEntries(FactorKey(f))[i] : i \in 1..Len(CatalogEntries(FactorKey(f)))}
              : f \in {g \in Factors : ConditionTrue(g)}}

PreventiveCandidates ==
    UNION {{Suggestion("preventive", "Prevent: " \o e.title,
                       "To prevent symptoms: " \o e.description, "low")
               : e \in LifestyleEntries(key)} : key \in PreventedSymptoms}

WellnessCandidates == {Hydration, BalancedNutrition}

\* current symptoms first, then preventions, then general wellness
OriginRank(suggestion) ==
    IF suggestion \in CurrentCandidates THEN 0
    ELSE IF suggestion \in PreventiveCandidates THEN 1 ELSE 2

\* C25: the truncation to 10 removes only candidates of the lowest priority
\* kept: every (title, category) of a candidate whose priority is strictly
\* higher than that of some suggestion returned is returned too; among the
\* suggestions returned with equal priority those for current symptoms come
\* before the preventive ones and these before the general wellness ones; and
\* no candidate for a current symptom is left out while a low-priority
\* preventive or general suggestion is returned.
C25_LowestPriorityDropped ==
    op = "generate_suggestions" =>
        LET out == result.suggestions
            current == CurrentCandidates
            candidates == current \cup PreventiveCandidates \cup WellnessCandidates
            kept == PairsOf(out)
        IN /\ \A c \in candidates :
                 (\E i \in 1..Len(out) : PriorityRank(c.priority) < PriorityRank(out[i].priority))
                     => <<c.title, c.category>> \in kept
           /\ \A i, j \in 1..Len(out) :
                 (i < j /\ out[i].priority = out[j].priority)
                     => OriginRank(out[i]) <= OriginRank(out[j])
           /\ (\E i \in 1..Len(out) : out[i].priority = "low")
                  => \A c \in current : <<c.title, c.category>> \in kept

\* more than 10 candidates for current symptoms: a medium one is left out and
\* nothing of low priority is returned
C25_Witness ==
    /\ op = "generate_suggestions"
    /\ \E c \in CurrentCandidates :
          /\ c.priority = "medium"
          /\ <<c.title, c.category>> \notin PairsOf(result.suggestions)
    /\ \A i \in 1..Len(result.suggestions) : result.suggestions[i].priority # "low"

\* every current candidate returned, then preventive ones, and a general
\* wellness suggestion left out
C25_WitnessWellnessDropped ==
    /\ op = "generate_suggestions"
    /\ CurrentCandidates # {}
    /\ \E i \in 1..Len(result.suggestions) : result.suggestions[i] \in PreventiveCandidates
    /\ BalancedNutrition \notin Range(result.suggestions)
\* C26: every symptom returned by predict_tomorrow_symptoms has a probability
\* in [0.5, 1] and a confidence of medium or high that is the banding of its
\* own probability, so low is never returned; and whenever a symptom is
\* predicted confidence_score is greater than 0.
C26_NeverLow ==
    op = "predict_tomorrow_symptoms" =>
        LET returned == result.predicted_symptoms
        IN /\ \A i \in 1..Len(returned) :
                 LET p == returned[i].probability
                 IN /\ 2 * p.num >= p.den
                    /\ p.num <= p.den
                    /\ returned[i].confidence \in {"medium", "high"}
                    /\ returned[i].confidence = Banding(p)
           /\ returned # <<>> => result.confidence_score.num > 0

\* the late-cycle headache, a candidate labelled low at 0.5 and the only one
\* for headache, is returned as medium
C26_Witness ==
    /\ op = "predict_tomorrow_symptoms"
    /\ \E k \in 1..Len(PhaseCandidates) :
          PhaseCandidates[k] = PredictedSymptom("headache", Rat(5, 10), "low")
    /\ \E i \in 1..Len(result.predicted_symptoms) :
          result.predicted_symptoms[i] = PredictedSymptom("headache", Rat(5, 10), "medium")
\* the period length the code computes for each detected start, in the order
\* of the starts
StartLengths ==
    LET d == RunStartDates
    IN [k \in 1..Len(d) |-> _calculate_period_length(entries, d[k])]

\* C27: a non-null average_cycle_length lies in [21, 35], so its whole days
\* are not zero and the ovulation day average_cycle_length - 14 is at least 7;
\* total_cycles_tracked is the number of detected period starts; every
\* detected start has a period length of at least 1, so a non-null
\* average_period_length is the mean over all the starts, at least 1, and
\* never the default.
C27_StatsInRange ==
    op = "calculate_cycle_stats" =>
        LET acl == result.average_cycle_length
            apl == result.average_period_length
            lengths == StartLengths
        IN /\ result.total_cycles_tracked = Cardinality(RunStarts)
           /\ acl # None =>
                 /\ 21 * acl[1].den <= acl[1].num
                 /\ acl[1].num <= 35 * acl[1].den
                 /\ WholeDays(acl[1]) >= 21
                 /\ acl[1].num - 14 * acl[1].den >= 7 * acl[1].den
           /\ \A k \in 1..Len(lengths) : lengths[k] # None /\ lengths[k][1] >= 1
           /\ apl # None =>
                 /\ apl[1].num >= apl[1].den
                 /\ apl[1] = Rat(SumOver(1..Len(lengths), [k \in 1..Len(lengths) |-> lengths[k][1]]),
                                 Len(lengths))

\* two starts 20 days apart, each of one day: the default cycle length 28 and
\* an average period length of 1
C27_Witness ==
    /\ op = "calculate_cycle_stats"
    /\ Cardinality(RunStarts) >= 2
    /\ ValidGapPlaces = {}
    /\ result.average_cycle_length = Some(Rat(28, 1))
    /\ result.average_period_length = Some(Rat(1, 1))
    /\ result.total_cycles_tracked = Cardinality(RunStarts)

\* gaps of 21 and 35 days, the ends of the range
C27_WitnessEnds ==
    /\ op = "calculate_cycle_stats"
    /\ \E k \in ValidGapPlaces : RunStartDates[k] - RunStartDates[k - 1] = 21
    /\ \E k \in ValidGapPlaces : RunStartDates[k] - RunStartDates[k - 1] = 35
    /\ result.average_cycle_length = Some(Rat(28, 1))
\* C28: with exactly one detected period start calculate_cycle_stats reports
\* no average cycle length and no forecast, while generate_predictions(entries,
\* n) returns n predictions on the default cycle of 28 days counted from that
\* start: cycle_day = ((date - start) mod 28) + 1, and the fertility status is
\* that of the ovulation day 14.
C28_SingleStart ==
    Cardinality(RunStarts) = 1 =>
        LET start == RunStartDates[1]
        IN /\ op = "calculate_cycle_stats" =>
                 /\ result.average_cycle_length = None
                 /\ result.next_predicted_period = None
                 /\ result.next_predicted_ovulation = None
                 /\ result.last_period_start = Some(start)
           /\ op = "generate_predictions" =>
                 /\ Len(result) = arg[1]
                 /\ \A i \in 1..Len(result) :
                       /\ result[i].date = today + (i - 1)
                       /\ result[i].cycle_day \in 1..28
                       /\ \E q \in -10..10 :
                             result[i].date - start = 28 * q + (result[i].cycle_day - 1)
                       /\ result[i].fertility_status =
                             StatusAt(Abs(result[i].cycle_day - 14), 1)

\* one start, 27 days ago: the predictions run from cycle day 28 over to 1
C28_Witness ==
    /\ op = "generate_predictions"
    /\ Cardinality(RunStarts) = 1
    /\ Len(result) >= 2
    /\ result[1].cycle_day = 28
    /\ result[2].cycle_day = 1

\* one start: the stats carry the start and nothing else
C28_WitnessStats ==
    /\ op = "calculate_cycle_stats"
    /\ Cardinality(RunStarts) = 1
    /\ result.last_period_start # None
    /\ result.average_cycle_length = None
\* the stats calculate_cycle_stats returns for the entries and the day of the
\* call that returned
StatsOfSameDay == calculate_cycle_stats(entries, today)

\* C29: for the same entries (two period starts or more) and the same today,
\* stats.current_cycle_day equals the cycle_day of the first prediction of
\* generate_predictions iff it lies in 1..M, M the whole days of the cycle
\* length; outside that range the prediction carries the wrapped value.
C29_WrappedAgainstUnwrapped ==
    (op = "generate_predictions" /\ Cardinality(RunStarts) >= 2 /\ arg[1] >= 1) =>
        LET stats == StatsOfSameDay
            M == WholeDays(PredictionCycleLength)
            day == stats.current_cycle_day[1]
        IN /\ stats.current_cycle_day # None
           /\ result[1].date = today
           /\ (day = result[1].cycle_day) <=> (1 <= day /\ day <= M)
           /\ result[1].cycle_day \in 1..M
           /\ \E q \in -10..10 : day - result[1].cycle_day = q * M

\* the user is overdue: the stats count on, the prediction has wrapped, and
\* the two phases differ
C29_Witness ==
    /\ op = "generate_predictions"
    /\ Cardinality(RunStarts) >= 2
    /\ arg[1] >= 1
    /\ StatsOfSameDay.current_cycle_day[1] > WholeDays(PredictionCycleLength)
    /\ result[1].cycle_day < StatsOfSameDay.current_cycle_day[1]
    /\ result[1].phase # StatsOfSameDay.current_phase[1]

\* the last start is after today: the stats give a day below 1
C29_WitnessBeforeStart ==
    /\ op = "generate_predictions"
    /\ Cardinality(RunStarts) >= 2
    /\ arg[1] >= 1
    /\ StatsOfSameDay.current_cycle_day[1] < 1
    /\ result[1].cycle_day >= 1

\* in range: the two agree
C29_WitnessAgree ==
    /\ op = "generate_predictions"
    /\ Cardinality(RunStarts) >= 2
    /\ arg[1] >= 1
    /\ StatsOfSameDay.current_cycle_day[1] = result[1].cycle_day
    /\ result[1].cycle_day > 1
\* no user has two stored entries of one date
OnePerUserAndDate ==
    \A i, j \in 1..Len(cycle_collection) :
        (/\ cycle_collection[i].user_id = cycle_collection[j].user_id
         /\ cycle_collection[i].date = cycle_collection[j].date) => i = j

\* C30: after any interleaving of create_cycle_entry and update_cycle_entry
\* requests no user has two stored cycle entries of the same date, and the
\* snapshot handed to the engine holds at most one entry per date.
C30_OneEntryPerUserAndDate ==
    /\ OnePerUserAndDate
    /\ op = "get_cycle_stats" => OneEntryPerDate

\* C30, second part: a create_cycle_entry request that ends with 400 found an
\* entry of its user and date, and leaves the stored entries as they were.
C30_RejectedCreate ==
    [][\A r \in 1..Len(requests') :
          (/\ requests'[r].route = "create_cycle_entry"
           /\ requests'[r].status_code = 400
           /\ r > Len(requests))
              => /\ cycle_collection' = cycle_collection
                 /\ find_one_by_date(requests'[r].user, requests'[r].entry.date) # {}]_vars

\* a create_cycle_entry request was rejected
C30_WitnessRejected ==
    \E r \in 1..Len(requests) :
        requests[r].route = "create_cycle_entry" /\ requests[r].status_code = 400
====
